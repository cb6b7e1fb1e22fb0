CONSTANTS
    prod = prod
    trans = trans
    producer = producer
    transformer = transformer
    consumer_tfo = consumer_tfo
    NoStream = NoStream
    Streams <- MCStreams
    Producer = producer
    Transformer = transformer
    Consumers <- MCConsumers
    In <- MCIn
    Out <- MCOut
    N = 3
    Capacity = 1

SPECIFICATION QROSpec
CHECK_DEADLOCK FALSE

INVARIANTS
    AnswersReachConsumers
    AloneInTerminate

PROPERTIES
    KeepsOrder
    QRORunEnds
