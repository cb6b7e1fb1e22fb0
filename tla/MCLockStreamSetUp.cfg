CONSTANTS
    prod = prod
    trans = trans
    producer = producer
    consumer = consumer
    transformer = transformer
    consumer_tfo = consumer_tfo
    NoStream = NoStream
    Streams <- MCStreams
    Producer = producer
    Consumers <- MCConsumers
    In <- MCIn
    Out <- MCOut
    N = 2

SPECIFICATION Safety
CHECK_DEADLOCK FALSE

INVARIANT SetUpBeforeProduction
