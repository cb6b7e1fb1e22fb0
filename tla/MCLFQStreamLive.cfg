CONSTANTS
    prod = prod
    trans = trans
    producer = producer
    consumer = consumer
    transformer = transformer
    consumer_tfo = consumer_tfo
    NoStream = NoStream
    Streams <- MCStreams
    Producer = producer
    Consumers <- Chain
    In <- MCIn
    Out <- MCOut
    N = 3
    Capacity = 2

SPECIFICATION Spec
CHECK_DEADLOCK FALSE

PROPERTIES
    SleepersAreWoken
    RunEnds
