---------------------------- MODULE MCThreadPool ----------------------------
(***************************************************************************)
(* One worker of each class, queues of one job, a job that releases the    *)
(* two others.  Crowded: a low job and two high ones, which do not both    *)
(* fit the queue of their class.  Local: all are high, so that a worker    *)
(* fills its own queue.  Mixed: a low job, a high one, and one without a   *)
(* functor, submitted one by one.                                          *)
(***************************************************************************)
EXTENDS ThreadPool

CONSTANTS a, b, c

MCBefore == {<<a, b>>, <<a, c>>}

Crowded == [high |-> {b, c}, sync |-> {}, batches |-> {Jobs}, targets |-> {}]
Local == [high |-> Jobs, sync |-> {}, batches |-> {Jobs}, targets |-> {c}]
Mixed == [high |-> {b}, sync |-> {c}, batches |-> {{j} : j \in Jobs}, targets |-> {b, c}]
MCPrograms == {Crowded, Local, Mixed}
=============================================================================
