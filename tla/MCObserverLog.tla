--------------------------- MODULE MCObserverLog ---------------------------
(***************************************************************************)
(* Small payloads of every shape that the observer distinguishes.          *)
(***************************************************************************)
EXTENDS ObserverLog

CONSTANTS i1, i2, t1

T == INSTANCE Traffic

MCIds == {i1, i2}
MCTools == {t1}

Shapes ==
    {T!Line(T!CallsTool(i1, t1)), T!Line(T!CallsTool(i1, None)),
     T!Line(T!CallsTool(None, t1)), T!Line(T!Asks(i1, "tools/list")),
     T!Line(T!Lists(i1, 2)), T!Line(T!Fails(i1)), T!Line(T!Scalar), T!Garbage,
     T!Line(T!Item), T!Batch(<<>>),
     T!Batch(<<T!Asks(i2, "other"), T!CallsTool(i1, t1), T!Asks(i1, "other")>>),
     T!Batch(<<T!Answers(i1), T!Fails(i2), T!Answers(i1)>>)}
=============================================================================
