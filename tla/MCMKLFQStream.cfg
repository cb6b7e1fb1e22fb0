CONSTANTS
    prod = prod
    trans = trans
    producer = producer
    consumer = consumer
    transformer = transformer
    consumer_tfo = consumer_tfo
    NoStream = NoStream
    Streams <- MCStreams
    Producer = producer
    Consumers <- MCConsumers
    In <- MCIn
    Out <- MCOut
    N = 2
    Capacity = 1

SPECIFICATION Spec
CHECK_DEADLOCK FALSE

INVARIANTS
    DequeueSucceeds
    StartsTogether
    EveryFrameAccounted

PROPERTIES
    KeepsPromise
    RunEnds
