---------------------------- MODULE SessionTable ----------------------------
(* SESSION_TRANSITIONS: the edges of a SimulationSession.                   *)

Edges == {<<"Created", "Initialized">>, <<"Initialized", "Ready">>, <<"Ready", "Running">>,
          <<"Running", "Paused">>, <<"Paused", "Running">>,
          <<"Running", "Draining">>, <<"Paused", "Draining">>,
          <<"Draining", "Snapshotted">>, <<"Snapshotted", "Disposed">>}
SessionState == UNION {{e[1], e[2]} : e \in Edges}
=============================================================================
