---------------------------- MODULE AccessDoors ----------------------------
(***************************************************************************)
(* The doors of the web process.  AuthMiddleware hands the paths of the    *)
(* MCP endpoint through untouched, to the bearer check and its key cache;  *)
(* every other request goes by the cookie or the outpost.  The two share   *)
(* no state, so a behaviour is taken to use one of them.                   *)
(***************************************************************************)
EXTENDS WebSession, JwksCache

vars == <<webvars, jwksvars>>

Init ==
    /\ door \in {"gate", "outpost", "mcp"}
    /\ WebInit /\ JwksInit
    /\ door # "mcp" => published = {} /\ forced = INTERVAL

Next ==
    \/ door # "mcp" /\ WebNext /\ UNCHANGED jwksvars
    \/ door = "mcp" /\ JwksNext /\ UNCHANGED webvars

Spec == Init /\ [][Next]_vars /\ WebFairness /\ JwksFairness

\* Both doors have the shape the code gives them.
TypeOK == door \in {"gate", "outpost", "mcp"} /\ WebTypeOK /\ JwksTypeOK
=============================================================================
