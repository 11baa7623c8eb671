------------------------------- MODULE MCAccount -------------------------------
(* OneTimeCodes and Sessions for TLC.  A behaviour draws on one of Budgets: each  *)
(* of them brings together the requests that may disturb one another.             *)
EXTENDS OneTimeCodes, TLC

MCSorts == {"login", "refresh", "end", "lifetime", "connect", "clock", "crash",
            "code", "totp", "passkey"}
None == [k \in MCSorts |-> 0]

\* Sessions of two devices (the first one's from signup, the second one's login is
\* confirmed by the first), refreshed and ended by one another over REST.
Ending == [None EXCEPT !["code"] = 1, !["login"] = 2, !["refresh"] = 1, !["end"] = 1,
                       !["crash"] = 1]
\* The same over the WebSocket, with two sessions of one device.
Others == [None EXCEPT !["code"] = 1, !["login"] = 1, !["refresh"] = 1, !["end"] = 1,
                       !["connect"] = 1]
\* One session, of a login that was confirmed by the mailed code of the device gate:
\* refreshes, logout, the clock, a crash.
Rotation == [None EXCEPT !["login"] = 2, !["refresh"] = 2, !["end"] = 1, !["clock"] = 2,
                         !["crash"] = 1]
\* Changes of lifetime under a session that is refreshed, ended, or whose time is over.
Lifetimes == [None EXCEPT !["code"] = 1, !["refresh"] = 2, !["end"] = 1, !["clock"] = 1,
                          !["connect"] = 1, !["lifetime"] = 1]
\* The ways of a connection.
Sockets == [None EXCEPT !["code"] = 1, !["refresh"] = 1, !["clock"] = 2, !["connect"] = 2]
\* The e-mail code, and a login after it.
Signup == [None EXCEPT !["login"] = 1, !["code"] = 3, !["clock"] = 1, !["crash"] = 1]
\* TOTP and backup codes.
Factors == [None EXCEPT !["code"] = 1, !["login"] = 2, !["totp"] = 5]
\* Passkeys.
Keys == [None EXCEPT !["login"] = 1, !["passkey"] = 4, !["crash"] = 1]

MCBudgets == {Ending, Others, Rotation, Lifetimes, Sockets, Signup, Factors, Keys}
Symmetry == Permutations(Procs)
=============================================================================
