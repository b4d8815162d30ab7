------------------------------- MODULE MCAjax -------------------------------
(* Two requests of any kind, begun in turn or one inside the other.         *)
EXTENDS Ajax, TLC

Of(k, t, g, b) == [kind |-> k, timeout |-> t, global |-> g, before |-> b]

MCOptions ==
  {Of("async", FALSE, TRUE, TRUE), Of("async", TRUE, TRUE, FALSE),
   Of("sync", FALSE, TRUE, FALSE), Of("cached", TRUE, TRUE, FALSE), Of("none", FALSE, TRUE, FALSE),
   Of("script", FALSE, FALSE, FALSE), Of("script", TRUE, FALSE, TRUE)}
=============================================================================
