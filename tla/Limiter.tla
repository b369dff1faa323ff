------------------------------ MODULE Limiter ------------------------------
(***************************************************************************)
(* The two decisions of internal/service/ratelimit.MemoryLimiter as pure   *)
(* operators.  Each call of the limiter holds its mutex from the reading   *)
(* of the clock to the update of its map, so a call is one atomic step of  *)
(* every module that uses these operators.                                 *)
(***************************************************************************)
EXTENDS Integers

Never == -1         \* no entry in the map `last`

NoCounter == [start |-> 0, count |-> 0]   \* no entry in the map `counters`

\* Cooldown passes unless the key's last pass is younger than the window.
CooldownPasses(last, t, window) ==
    \/ last = Never
    \/ t - last >= window

\* Mutant: the window is still open at its very end.
NewWindowLate(c, t, window) ==
    \/ c.count = 0
    \/ t - c.start > window

\* Allow starts a new window when there is none or the old one is over.
NewWindow(c, t, window) ==
    \/ c.count = 0
    \/ t - c.start >= window

\* Mutant: the comparison with the limit is off by one.
AllowPassesOneMore(c, t, limit, window) ==
    \/ NewWindow(c, t, window)
    \/ c.count <= limit

\* Allow passes in a new window, or while the window's count is below the limit.
AllowPasses(c, t, limit, window) ==
    \/ NewWindow(c, t, window)
    \/ c.count < limit

\* The counter an Allow that passes leaves; one that refuses changes nothing.
AfterAllow(c, t, window) ==
    IF NewWindow(c, t, window)
    THEN [start |-> t, count |-> 1]
    ELSE [c EXCEPT !.count = @ + 1]

=============================================================================
