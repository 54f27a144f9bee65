------------------------------ MODULE MCBrowser ------------------------------
(***************************************************************************)
(* Small instances of the parts of the browser.                            *)
(***************************************************************************)
EXTENDS Browser

\* Two wallets, one saved from before, two handlers and two checks at a time.
TwoWallets == [Wallets |-> {1, 2}, Fallback |-> 1, Knowing |-> {2}, Saved |-> 2, Demo |-> 9,
               Tasks |-> {1, 2}, Flights |-> {1, 2}, MaxFaults |-> 1, MaxMoves |-> 3]

\* Two requests, one after the other, and failures everywhere.
TwoRequests == [Ids |-> {1, 2}, MaxRounds |-> 1, MaxFaults |-> 2]

\* A wait that holds two pauses and the rest of a third.
ThreePauses == [Handles |-> {"h1", "h2"}, Timeout |-> 7, ReadTimeout |-> 3, Interval |-> 3,
                RequestTimeout |-> 3, Latency |-> 1, MaxFaults |-> 2]

\* Two requests on a chain of two chunks, two pages one after the other.
TwoChunks == [Ids |-> {1, 2}, Chunk |-> 2, MaxBlocks |-> 4, MaxForces |-> 2, MaxFaults |-> 1,
              MaxMounts |-> 2]

\* Two moves of the visitor's own at any point of a guided tour with a retry, and when no
\* attempt is replaced.
TwoTours == [tour |-> [Retries |-> {"approval"}, MaxMoves |-> 2],
             transit |-> [Retries |-> {}, MaxMoves |-> 2]]

\* Two packets of the run that overlap, and a packet of the whole run beside one of another.
TwoReviews == [overlap |-> [Contents |-> <<{1, 2}, {2, 3}>>, Foreign |-> {}, Handles |-> 1,
                            MaxFaults |-> 0],
               late |-> [Contents |-> <<{1, 2, 3}, {7}>>, Foreign |-> {2}, Handles |-> 2,
                         MaxFaults |-> 1]]
=============================================================================
