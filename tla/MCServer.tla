------------------------------ MODULE MCServer ------------------------------
(***************************************************************************)
(* Small instances of the components of the server.                        *)
(***************************************************************************)
EXTENDS Server

\* One request met by an HTTP call, the sweeper and the keeper, beside another admin job.
OneRequest == [MaxRequests |-> 1, Posts |-> {"post"}, KeeperRuns |-> TRUE, MaxOther |-> 1,
               MaxFaults |-> 1]

\* Two addresses, two POSTs at a time, a cap of two a day.
TwoAddresses == [Applicants |-> {"a1", "a2"}, Posts |-> {"p1", "p2"}, dailyCap |-> 2, DAY |-> 2,
                 subjectWindow |-> 2, ttl |-> 1, maxPending |-> 1, MaxChallenges |-> 3,
                 MaxFaults |-> 1, MaxTime |-> 4]

\* Two endpoints, one listed twice.
OneUrl == <<"rpc-a">>
TwoUrls == <<"rpc-a", "rpc-b">>

\* One demo delegate that is also a visitor: the two pipelines meet on one address and
\* a request takes its slot,
OneDelegate == [DEMO_DELEGATES |-> <<"demo">>, Visitors |-> {"demo"}, MaxRequests |-> 1,
                MaxProvisions |-> 1, MaxAsks |-> 0, MaxElsewhere |-> 0, MaxFaults |-> 0]

\* or either of them fails, or the server does, at any step.
OneFault == [OneDelegate EXCEPT !.MaxRequests = 0, !.MaxFaults = 1]

\* Two demo delegates, readiness probes that start cycles, a proposal made elsewhere.
TwoDelegates == [DEMO_DELEGATES |-> <<"demo", "freeplay">>, Visitors |-> {}, MaxRequests |-> 0,
                 MaxProvisions |-> 0, MaxAsks |-> 2, MaxElsewhere |-> 1, MaxFaults |-> 0]

\* A client asks for three requests of two mandates, another one for one of them.
TwoClients == [Keys |-> {{1}, {1, 2, 3}}, mandateOf |-> <<1, 1, 2>>, dailyCap |-> 4, lookback |-> 2,
               MaxJobs |-> 3, MaxFaults |-> 1]
=============================================================================
