------------------------------- MODULE MCMessages -------------------------------
(* Messages and MediaFiles for TLC.  A behaviour draws on one of Budgets: each of  *)
(* them brings together the requests that may disturb one another.                 *)
EXTENDS Messages, TLC

MCSorts == {"post", "film", "edit", "purge", "react", "view", "scroll", "picture",
            "fault", "clock", "crash"}
None == [k \in MCSorts |-> 0]

\* One message is edited, updated, deleted and purged.
Changes == [None EXCEPT !["post"] = 1, !["edit"] = 3, !["purge"] = 1, !["crash"] = 1,
                        !["view"] = 1]
\* Two videos of one name, of which one is deleted and purged, which may fail.
TwoFilms == [None EXCEPT !["film"] = 2, !["edit"] = 1, !["purge"] = 1, !["fault"] = 1]
\* One video, and what goes wrong.
Faults == [None EXCEPT !["film"] = 1, !["edit"] = 1, !["purge"] = 1, !["fault"] = 2,
                       !["crash"] = 1]
\* Photos and clips of a profile; over midnight; with failures.
Profile == [None EXCEPT !["picture"] = 3]
Midnights == [None EXCEPT !["picture"] = 2, !["clock"] = 1]
Retries == [None EXCEPT !["picture"] = 2, !["fault"] = 1, !["crash"] = 1]
Stubborn == [None EXCEPT !["picture"] = 1, !["fault"] = 2, !["crash"] = 1, !["clock"] = 1]
\* Reactions to one message, which is deleted and purged.
Reactions == [None EXCEPT !["post"] = 1, !["react"] = 4, !["view"] = 1, !["edit"] = 1,
                          !["purge"] = 1]
\* A client reads the history while messages are posted and deleted.
History == [None EXCEPT !["post"] = 3, !["edit"] = 1, !["scroll"] = 1]

MCBudgets == {Changes, TwoFilms, Faults, Profile, Midnights, Retries, Stubborn, Reactions,
              History}
Symmetry == Permutations(Procs) \cup Permutations(Kinds) \cup Permutations(Videos)
            \cup Permutations(Clips)

\* Two messages and a client.
ScrollBudgets == {[None EXCEPT !["post"] = 2, !["scroll"] = 1]}

\* Whether the chat is a channel matters to nobody but the client.
MCInit == Init /\ (channel => left["scroll"] > 0)
MCSpec == MCInit /\ [][Next]_vars
=============================================================================
