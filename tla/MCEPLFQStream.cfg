CONSTANTS
    prod = prod
    trans = trans
    producer = producer
    consumer = consumer
    transformer = transformer
    consumer_tfo = consumer_tfo
    NoStream = NoStream
    NoFd = NoFd
    Streams <- MCStreams
    Producer = producer
    Consumers <- Pair
    In <- MCIn
    Out <- MCOut
    N = 2

SPECIFICATION EplSpec
CHECK_DEADLOCK FALSE

INVARIANTS
    NeverEnds
    MergedStayBehind

PROPERTY RunStrands
