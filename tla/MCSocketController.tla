-------------------------- MODULE MCSocketController --------------------------
(* Small instances of SocketController for TLC.                            *)
EXTENDS SocketController, TLC

CONSTANTS c1, c2

MCCallers == {c1, c2}
MCWcs == {1, 2}
Ready(w, p) == [mode |-> "Ready", wcs |-> w, pos |-> p]
Other(m) == [mode |-> m, wcs |-> 1, pos |-> "p"]
Singles(reports, types) ==
  {<<r>> : r \in {Record("status", s) : s \in reports}
                 \cup {Record(t, NoReport) : t \in types}}

\* Every way a wait can go on or end, the records it tells apart, and a frame
\* of two records.
MixedReports == {Ready(1, "p"), Ready(2, "p"), Other("Busy"),
                 [Ready(2, "p") EXCEPT !.pos = NotFinite]}
MixedFrames == Singles(MixedReports, {"error", "other", "garbage"})
               \cup {<<Record("status", Ready(1, "p")), Record("status", Ready(2, "p"))>>}
\* For liveness: the least with which every wait can begin, go on and be refused.
LiveReports == {Ready(1, "p"), Other("Blocked")}
LiveFrames == Singles(LiveReports, {"garbage"})
CallerSymmetry == Permutations(MCCallers)
===============================================================================
