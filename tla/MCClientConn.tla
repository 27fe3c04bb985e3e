---------------------------- MODULE MCClientConn ----------------------------
(* ClientConn for TLC: who may call on the connection. *)
EXTENDS ClientConn

CONSTANTS r1, r2, p1, p2

Mix(callers, bodies, upgraded, h2c, tries, settings, pinged) ==
  [callers |-> callers, bodies |-> bodies, upgraded |-> upgraded, h2c |-> h2c, tries |-> tries,
   settings |-> settings, pinged |-> pinged]

\* Two plain requests; a body next to the request of an upgraded connection; a context
\* that asks for the upgrade next to a plain request on a connection that is not
\* upgraded; two of them on one that is; a ping that is sent again; two calls of isValid,
\* of which one may wait for the other's ping.
MCMixes == {Mix({r1, r2}, {}, {}, FALSE, 0, 1, FALSE), Mix({r1, r2}, {r2}, {r1}, TRUE, 0, 1, FALSE),
            Mix({r1, r2}, {}, {r1}, FALSE, 0, 2, FALSE), Mix({r1, r2}, {}, {r1, r2}, TRUE, 0, 1, FALSE),
            Mix({p1}, {}, {}, FALSE, 2, 2, TRUE), Mix({p1, p2}, {}, {}, FALSE, 1, 1, TRUE)}
=============================================================================
