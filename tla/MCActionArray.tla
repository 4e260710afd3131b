--------------------------- MODULE MCActionArray ---------------------------
(***************************************************************************)
(* A machine of three states and two events with up to three declarations: *)
(* ALL, vectors, single names and a state named twice; plain transitions   *)
(* and functions, one of which may decline to move.                        *)
(***************************************************************************)
EXTENDS Documents

mcEventList == <<"go", "stop">>
mcStateList == <<"idle", "busy", "done">>

mcEvents == {<< >>, <<"go">>, <<"stop">>}
mcStates == {<< >>, <<"idle">>, <<"busy", "done">>, <<"idle", "idle">>}
mcTo     == {{}, {"idle"}, {"busy", "done", "noTransition"}}

mcDeclarations ==
  [events : mcEvents, states : mcStates, action : {"act"}, to : mcTo]
    \union [events : {<<"go">>, << >>}, states : {<<"done">>}, action : {"none"}, to : {{"busy"}}]

(* the third declaration, where there is one, completes the event *)
mcThird == [events : {<<"go">>}, states : {<<"idle">>, << >>}, action : {"none"}, to : {{"done"}}]

mcInputs ==
  {<<d>> : d \in mcDeclarations} \union {<<c, d>> : c, d \in mcDeclarations}
    \union {<<c, d, b>> : c, d \in {x \in mcDeclarations : x.to = {"idle"}}, b \in mcThird}
=============================================================================
