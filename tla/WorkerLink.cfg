CONSTANT N = 4

SPECIFICATION Spec
CHECK_DEADLOCK FALSE

INVARIANTS
    PicturesFit
    NoSegmentLeft

PROPERTIES
    KeepsLink
    LinkCloses
