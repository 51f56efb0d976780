---------------------------- MODULE MCScheduler ----------------------------
EXTENDS Scheduler

A(i, t) == [ip |-> i, lo |-> 1, hi |-> 1, type |-> t]

MCTypes == {"q1", "q2", "q3", "tcp", "qwm", "q3m"}
One(t) == <<A(1, t)>>
Two(t, u) == <<A(1, t), A(2, u)>>
Three(t, u, v) == <<A(1, t), A(2, u), A(3, v)>>

Broadcast4(t) == <<A(4, t)>>

Sc(c, s, r, p, f, b) ==
  [cmdline |-> c, sort |-> s, rules |-> r, players |-> p, faults |-> f, budget |-> b]

MCScenarios ==
  { Sc(Two("q3", "q2"), "none", TRUE, FALSE, {"emfile"}, 2),
    Sc(Two("q3", "q2"), "none", FALSE, FALSE, {"emfile", "connect"}, 1),
    Sc(One("q1"), "keys", TRUE, TRUE, {"send"}, 4),
    Sc(Two("q1", "q2"), "keys", FALSE, TRUE, {"connect", "refused"}, 2),
    Sc(Two("tcp", "q2"), "keys", TRUE, TRUE, {"send", "connect", "refused"}, 1),
    Sc(Three("tcp", "tcp", "q2"), "keys", TRUE, TRUE, {}, 0),
    Sc(<<A(1, "tcp"), A(0, "q2")>>, "keys", TRUE, TRUE, {"sync"}, 0),
    Sc(Two("qwm", "q2"), "none", TRUE, TRUE, {"timeout"}, 2),
    Sc(Two("qwm", "q3m"), "keys", TRUE, TRUE, {}, 2),
    Sc(Broadcast4("q2"), "none", TRUE, TRUE, {}, 3),
    Sc(Broadcast4("q2"), "keys", TRUE, TRUE, {}, 2) }

\* Two TCP servers, unsorted.
TwoTcp == {Sc(Two("tcp", "tcp"), "none", TRUE, TRUE, {}, 0)}

\* Descriptors run out once, sorted.
OutOfFds == {Sc(Two("q2", "q2"), "keys", TRUE, TRUE, {"emfile"}, 1)}

MCCmdLines == {sc.cmdline : sc \in MCScenarios \cup TwoTcp \cup OutOfFds}
MCDiscovered == {<<3, 1, "q2">>, <<1, 1, "q2">>}
MCOptions == [noserverdups : {TRUE}, sort : {"none", "keys"}]
MCGamePorts == {}
=============================================================================
