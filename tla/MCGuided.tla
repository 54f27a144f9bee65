------------------------------ MODULE MCGuided ------------------------------
(***************************************************************************)
(* Small visits of the guided payments.                                    *)
(***************************************************************************)
EXTENDS GuidedRun

Alone == [Missions |-> PaymentMissions, MaxRequests |-> 3, MaxRuns |-> 1, MaxFaults |-> 1,
          FreePlay |-> FALSE, Split |-> FALSE, Shared |-> FALSE, LosesHash |-> FALSE,
          Abandons |-> FALSE]

SmallVisits ==
    { \* One visitor plays the three missions; the page may be reloaded or left once.
      Alone,
      \* Or the hash of a broadcast payment is lost,
      [Alone EXCEPT !.Missions = {"routine", "approval"}, !.LosesHash = TRUE],
      \* or the page of a first payment is left while it is on its way.
      [Alone EXCEPT !.Missions = {"routine"}, !.MaxRequests = 2, !.Abandons = TRUE],
      \* Free payments in between, and the save effect races the answers.
      [Alone EXCEPT !.Missions = {"routine"}, !.MaxRequests = 2, !.MaxFaults = 0,
                    !.FreePlay = TRUE, !.Split = TRUE],
      \* Two runs, two payments in all: of a routine and an approval,
      [Alone EXCEPT !.Missions = {"routine", "approval"}, !.MaxRequests = 2, !.MaxRuns = 2,
                    !.MaxFaults = 0],
      \* of routines and free ones,
      [Alone EXCEPT !.Missions = {"routine"}, !.MaxRequests = 2, !.MaxRuns = 2,
                    !.MaxFaults = 0, !.FreePlay = TRUE],
      \* or of routines, while another visitor pays from the same mandate.
      [Alone EXCEPT !.Missions = {"routine"}, !.MaxRequests = 2, !.MaxRuns = 2,
                    !.MaxFaults = 0, !.Shared = TRUE] }
=============================================================================
