CONSTANTS
    prod = prod
    trans = trans
    producer = producer
    consumer = consumer
    transformer = transformer
    consumer_tfo = consumer_tfo
    NoStream = NoStream
    Streams <- MCStreams
    Producer = producer
    Consumers <- AllKinds
    In <- MCIn
    Out <- MCOut
    N = 2
    Capacity = 1

SPECIFICATION Safety
CHECK_DEADLOCK FALSE

INVARIANTS
    ReadNeverFails
    FirstFramesFit
    EveryFrameAccounted
    Inv

PROPERTY KeepsOrder
