------------------------------ MODULE Dashboard -----------------------------
(***************************************************************************)
(* A polling hook of the monitor UI (useSystemStatus; useServiceInstances  *)
(* and the detail page poll in the same way): every interval a fetch of    *)
(* several parts starts, whether earlier ones have ended or not, and each  *)
(* sets the state of the page when it ends.                                *)
(***************************************************************************)
EXTENDS Naturals, FiniteSets

CONSTANTS
  Slot,         \* the fetches that can be under way at once
  Nothing,      \* before the first answer
  MaxTruth,     \* bound: changes of what the server would answer
  MaxTroubles,  \* bound: requests that fail, time out, or never end
  MaxMounts     \* bound: times the page is opened

ASSUME DashboardAssumption ==
  MaxTruth \in Nat /\ MaxTroubles \in Nat /\ MaxMounts \in Nat
  /\ Cardinality(Slot) > MaxTroubles

Part == {"health", "system"}

VARIABLES
  truth,     \* what the server would answer now
  asked,     \* of each fetch, its parts: not asked, asked, failed, hung, or the answer
  shown,     \* the state of the page: the answers it shows,
  error,     \*   whether it has an error,
  loading,   \*   whether it shows that it is loading
  mounted, mounts, troubles

pageVars == <<shown, error, loading>>
dashboardVars == <<truth, asked, pageVars, mounted, mounts, troubles>>

Value == 0 .. MaxTruth
PartState == [at : {"none", "asked", "failed", "hung", "answered"}, value : Value]
Unasked == [at |-> "none", value |-> 0]

DashboardTypeOK ==
  /\ truth \in Value /\ asked \in [Slot -> [Part -> PartState]]
  /\ shown \in [Part -> Value \cup {Nothing}]
  /\ {error, loading, mounted} \subseteq BOOLEAN
  /\ mounts \in 0 .. MaxMounts /\ troubles \in 0 .. MaxTroubles

Empty == [p \in Part |-> Nothing]

DashboardInit ==
  /\ truth = 0 /\ asked = [s \in Slot |-> [p \in Part |-> Unasked]]
  /\ shown = Empty /\ error = FALSE /\ loading = TRUE
  /\ mounted = FALSE /\ mounts = 0 /\ troubles = 0

Free(s) == \A p \in Part : asked[s][p].at = "none"
Failed(s) == \E p \in Part : asked[s][p].at = "failed"
Answered(s) == \A p \in Part : asked[s][p].at = "answered"
Set(s, p, at) == asked' = [asked EXCEPT ![s][p] = [at |-> at, value |-> truth]]
Clear(s) == asked' = [asked EXCEPT ![s] = [p \in Part |-> Unasked]]

-----------------------------------------------------------------------------
Change == truth < MaxTruth /\ truth' = truth + 1
          /\ UNCHANGED <<asked, pageVars, mounted, mounts, troubles>>

(* Opening the page: the state is new, and polling begins.                 *)
Mount ==
  /\ ~mounted /\ mounts < MaxMounts /\ mounted' = TRUE /\ mounts' = mounts + 1
  /\ shown' = Empty /\ error' = FALSE /\ loading' = TRUE
  /\ UNCHANGED <<truth, asked, troubles>>

(* Leaving it: the interval is cleared; what still arrives sets the state  *)
(* of a page that is gone, which has no effect.                            *)
Unmount ==
  /\ mounted /\ mounted' = FALSE
  /\ asked' = [s \in Slot |-> [p \in Part |-> Unasked]]
  /\ UNCHANGED <<truth, pageVars, mounts, troubles>>

(* Mutant of Poll: no fetch while another is under way.                    *)
PollWhenQuiet(s) ==
  /\ mounted /\ \A r \in Slot : Free(r)
  /\ asked' = [asked EXCEPT ![s] = [p \in Part |-> [at |-> "asked", value |-> 0]]]
  /\ error' = FALSE /\ UNCHANGED <<truth, shown, loading, mounted, mounts, troubles>>

(* A fetch begins, by the interval or by refresh, which shows the page as  *)
(* loading once more; the error of an earlier one goes.                    *)
Poll(s) ==
  /\ mounted /\ Free(s)
  /\ asked' = [asked EXCEPT ![s] = [p \in Part |-> [at |-> "asked", value |-> 0]]]
  /\ error' = FALSE
  /\ loading' \in {loading, TRUE}
  /\ UNCHANGED <<truth, shown, mounted, mounts, troubles>>

(* The API answers through the proxy.                                      *)
Serve(s, p) ==
  /\ asked[s][p].at = "asked" /\ Set(s, p, "answered")
  /\ UNCHANGED <<truth, pageVars, mounted, mounts, troubles>>

(* A request fails or is aborted after 30 seconds; the timeout is cleared  *)
(* with the headers, so a body that never ends is waited for for ever.     *)
Trouble(s, p) ==
  /\ asked[s][p].at = "asked" /\ troubles < MaxTroubles /\ troubles' = troubles + 1
  /\ \E at \in {"failed", "hung"} : Set(s, p, at)
  /\ UNCHANGED <<truth, pageVars, mounted, mounts>>

(* Promise.all: the answers are shown together when both are there.        *)
Succeeds(s) ==
  /\ Answered(s) /\ shown' = [p \in Part |-> asked[s][p].value]
  /\ loading' = FALSE /\ Clear(s)
  /\ UNCHANGED <<truth, error, mounted, mounts, troubles>>

(* One failure fails the fetch; what the page shows stays.                 *)
Fails(s) ==
  /\ Failed(s) /\ error' = TRUE /\ loading' = FALSE /\ Clear(s)
  /\ UNCHANGED <<truth, shown, mounted, mounts, troubles>>

DashboardNext ==
  \/ Change \/ Mount \/ Unmount
  \/ \E s \in Slot : Poll(s) \/ Succeeds(s) \/ Fails(s)
                     \/ \E p \in Part : Serve(s, p) \/ Trouble(s, p)

(* The interval goes on, requests that are not hung are answered, and the  *)
(* user does not reload for ever.                                          *)
DashboardFairness ==
  \A s \in Slot :
    /\ WF_dashboardVars(Succeeds(s) \/ Fails(s))
    /\ \A p \in Part : WF_dashboardVars(Serve(s, p))
    /\ SF_dashboardVars(Poll(s) /\ loading' = loading)

-----------------------------------------------------------------------------
(* Properties *)

(* What the page shows changes to the answers of one fetch, all of them:   *)
(* never to parts of two.                                                  *)
ScreenIsOneFetch ==
  [][mounted /\ shown' # shown =>
       mounted' /\ \E s \in Slot : Answered(s) /\ \A p \in Part : shown'[p] = asked[s][p].value
     ]_dashboardVars

(* A page that stays open shows, sooner or later and from then on, what    *)
(* the server answers, though fetches overlap, overtake each other, fail,  *)
(* or never end.                                                           *)
ScreenCatchesUp ==
  <>[]mounted => <>[](~error /\ \A p \in Part : shown[p] = truth)

(* The types, and what the page shows: one fetch, and in the end the last. *)
ScreenSound == []DashboardTypeOK /\ ScreenIsOneFetch /\ ScreenCatchesUp
=============================================================================
