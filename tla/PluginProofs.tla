----------------------------- MODULE PluginProofs -----------------------------
(***************************************************************************)
(* That a stop and a start leave nothing of a former run behind, for any   *)
(* outputs, any order of the teardown and any number of starts.  A run     *)
(* bears the number of its start, so what is open, latched or on the wire  *)
(* belongs to a run already started: the strengthening LifecycleInv says   *)
(* so, and tells the run that is started next from all of them.            *)
(*                                                                         *)
(* That the World Port Index keeps what it holds, for any callers and any  *)
(* set of ports.  WholeSetHonest is inductive as it stands: that somebody  *)
(* waits exactly while a download is out (OneDownload) tells a list that   *)
(* is given up during a cool-down, which would mark the row, from one that *)
(* cannot be; and that the rows of a list are those of the cached set      *)
(* tells what a list answers when no download is due.                      *)
(*                                                                         *)
(* That the settings panel and the plugin agree once a save got through,   *)
(* for any numbers, flags and endpoints: what the panel shows resolves to  *)
(* itself when the plugin resolves it again (Resolved).                    *)
(*                                                                         *)
(* That the cadence the plugin derives from the radii of its alarms leaves *)
(* no zone between two evaluations, for any radii, any speeds and fixes    *)
(* within the second (CadenceInv).                                         *)
(***************************************************************************)
EXTENDS PluginLifecycle, WholeSetSource, SettingsPanel, ScanCadence,
        WellFoundedInduction, TLAPS

-----------------------------------------------------------------------------
(* The lifecycle of the plugin. *)

Started == 1..starts

LifecycleInv ==
    /\ starts \in Nat /\ runtime \in 0..starts
    /\ open \subseteq Started \X Resources
    /\ latched \subseteq Started
    /\ lists \subseteq Started
    /\ forsaken \subseteq Started
    /\ LifecycleSound

LEMMA InitInv == LifecycleInit => LifecycleInv
  BY DEF LifecycleInit, LifecycleInv, LifecycleSound, Started

\* What is open after a teardown is what has been opened by the next run, what
\* refused to stop now, and what had refused before.
LEMMA TeardownLeavesRefused ==
    ASSUME NEW run, NEW opened, LifecycleInv, Replaced(run, opened)
    PROVE  /\ runtime' = run /\ rows' = {} /\ opened \subseteq open'
           /\ \A o \in open' : \/ o \in opened
                               \/ o \in open /\ (o \in refused' \/ MadeInVain(o))
  <1> PICK throwing \in SUBSET Held :
          /\ runtime' = run
          /\ rows' = {}
          /\ open' = ((open \ Held) \cup LeftOpen(throwing)) \cup opened
          /\ refused' = refused \cup throwing
    BY DEF Replaced
  <1>1. ASSUME NEW o \in open', o \notin opened
        PROVE  o \in open /\ (o \in refused' \/ MadeInVain(o))
    <2>1. o \in open \ Held \/ o \in throwing
      BY <1>1 DEF LeftOpen
    <2>2. CASE o \in open \ Held
      BY <2>2 DEF Held, LifecycleInv, LifecycleSound
    <2>3. CASE o \in throwing
      BY <2>3 DEF Held
    <2> QED  BY <2>1, <2>2, <2>3
  <1> QED  BY <1>1

\* A run with no number leaves the plugin down, whatever sources were made in vain.
LEMMA DownInv ==
    ASSUME LifecycleInv, NEW opened, Replaced(0, opened), starts' \in Nat, starts' >= starts,
           opened \subseteq Started' \X {"source"},
           forsaken \subseteq forsaken', forsaken' \subseteq Started',
           \A o \in opened : o[1] \in forsaken',
           UNCHANGED <<latched, lists>>,
           line'.says = "healthy" => line'.run \notin latched
    PROVE  LifecycleInv'
  <1>1. /\ runtime' = 0 /\ rows' = {}
        /\ \A o \in open' : \/ o \in opened
                            \/ o \in open /\ (o \in refused' \/ MadeInVain(o))
    BY TeardownLeavesRefused
  <1>2. Started \subseteq Started'
    BY DEF Started, LifecycleInv
  <1>3. /\ open' \subseteq Started' \X Resources
        /\ latched' \subseteq Started' /\ lists' \subseteq Started'
    BY <1>1, <1>2 DEF LifecycleInv, Resources
  <1>4. ASSUME NEW o \in open'
        PROVE  o \in refused' \/ (o[1] \in forsaken' /\ o[2] = "source")
    <2>1. CASE o \in opened
      <3>1. o[2] = "source" /\ o[1] \in forsaken'
        BY <2>1
      <3> QED BY <3>1
    <2>2. CASE o \notin opened
      BY <1>1, <2>2 DEF MadeInVain
    <2> QED BY <2>1, <2>2
  <1>5. LifecycleSound'
    BY <1>1, <1>4 DEF LifecycleSound, MadeInVain
  <1>6. starts' \in Nat /\ runtime' \in 0..starts'
    BY <1>1
  <1> QED  BY <1>3, <1>5, <1>6 DEF LifecycleInv

LEMMA StartInv ==
    ASSUME LifecycleConstants, LifecycleInv,
           NEW enabled \in SUBSET Outputs, NEW failed \in SUBSET (enabled \cup {"monitor"}),
           Start(enabled, failed)
    PROVE  LifecycleInv'
  <1> DEFINE opened == Opened(enabled, failed)
  <1>1. /\ starts \in Nat /\ starts' = starts + 1
        /\ Replaced(starts', opened)
        /\ UNCHANGED lists
    BY DEF Start, LifecycleInv
  <1>2. /\ runtime' = starts' /\ rows' = {} /\ opened \subseteq open'
        /\ \A o \in open' : \/ o \in opened
                            \/ o \in open /\ (o \in refused' \/ MadeInVain(o))
    <2> HIDE DEF opened
    <2> QED  BY <1>1, TeardownLeavesRefused
  <1>3. opened \subseteq {starts'} \X Resources
    BY <1>1 DEF Opened, Resources
  <1>4. <<starts', "source">> \in opened
    BY <1>1 DEF Opened, LifecycleConstants
  <1>5. Started \subseteq Started' /\ starts' \in Started' /\ starts' \notin Started
    BY <1>1 DEF Started
  <1>6. open' \subseteq Started' \X Resources
    BY <1>2, <1>3, <1>5 DEF LifecycleInv
  <1>7. latched' \subseteq Started' /\ lists' \subseteq Started' /\ forsaken' \subseteq Started'
    BY <1>1, <1>5 DEF Start, LifecycleInv
  <1>8. \A o \in open' : \/ o[1] = runtime' \/ o \in refused'
                         \/ (o[1] \in forsaken' /\ o[2] = "source")
    BY <1>2, <1>3 DEF Start, MadeInVain
  <1>9. line'.says = "healthy" => line'.run \notin latched'
    <2>1. CASE failed = {}
      BY <1>5, <2>1 DEF Start, LifecycleInv
    <2>2. CASE failed # {}
      BY <2>2 DEF Start
    <2> QED  BY <2>1, <2>2
  <1>10. LifecycleSound'
    BY <1>2, <1>4, <1>8, <1>9 DEF LifecycleSound, MadeInVain
  <1> QED  BY <1>1, <1>2, <1>6, <1>7, <1>10 DEF LifecycleInv

LEMMA ListAskedInv ==
    ASSUME LifecycleInv, ListAsked
    PROVE  LifecycleInv'
  <1>1. runtime \in Started
    BY DEF ListAsked, Held, LifecycleInv
  <1>2. lists' \subseteq Started
    BY <1>1 DEF ListAsked, LifecycleInv
  <1> QED  BY <1>2 DEF ListAsked, LifecycleInv, LifecycleSound, MadeInVain, Started

\* The list of a former run writes the line, and no outcome that is shown.
LEMMA ListSettlesInv ==
    ASSUME LifecycleInv, ListSettles
    PROVE  LifecycleInv'
  <1> PICK run \in lists :
          /\ lists' = lists \ {run}
          /\ ListAnswered(run) \/ ListFailed(run)
          /\ UNCHANGED <<starts, runtime, open, latched, refused, forsaken>>
    BY DEF ListSettles
  <1>1. run # 0
    BY DEF LifecycleInv, Started
  <1>2. rows' = Recorded(run)
    BY DEF ListAnswered, ListFailed
  <1>3. rows' \subseteq {runtime} \ {0}
    BY <1>1, <1>2 DEF Recorded, LifecycleInv, LifecycleSound
  <1>4. line'.says = "healthy" => line'.run \notin latched
    <2>1. CASE ListAnswered(run)
      BY <2>1 DEF ListAnswered, GuardedStatus, LifecycleInv, LifecycleSound
    <2>2. CASE ListFailed(run)
      BY <2>2 DEF ListFailed
    <2> QED  BY <2>1, <2>2
  <1> QED  BY <1>3, <1>4 DEF LifecycleInv, LifecycleSound, MadeInVain, Started

LEMMA StepInv ==
    ASSUME LifecycleConstants
    PROVE  LifecycleInv /\ [LifecycleNext]_lifecycleVars => LifecycleInv'
  <1> SUFFICES ASSUME LifecycleInv, [LifecycleNext]_lifecycleVars PROVE LifecycleInv'
    OBVIOUS
  <1>1. CASE Stop
    <2>1. starts' \in Nat /\ starts' >= starts /\ forsaken' \subseteq Started'
      BY <1>1 DEF Stop, LifecycleInv, Started
    <2> QED  BY <1>1, <2>1, DownInv DEF Stop, LifecycleInv, LifecycleSound
  <1>2. CASE StartThrows
    <2>1. starts' \in Nat /\ starts' >= starts /\ starts' \in Started'
          /\ Started \subseteq Started'
      BY <1>2 DEF StartThrows, LifecycleInv, Started
    <2>2. line'.says = "error" /\ UNCHANGED <<latched, lists>>
      BY <1>2 DEF StartThrows
    <2>3. PICK made \in SUBSET {"source"} :
             /\ Replaced(0, {starts'} \X made)
             /\ forsaken' = IF made = {} THEN forsaken ELSE forsaken \cup {starts'}
      BY <1>2 DEF StartThrows
    <2> DEFINE opened == {starts'} \X made
    <2>4. /\ opened \subseteq Started' \X {"source"}
          /\ \A o \in opened : o[1] \in forsaken'
      BY <2>1, <2>3
    <2>5. forsaken \subseteq forsaken' /\ forsaken' \subseteq Started'
      BY <2>1, <2>3 DEF LifecycleInv
    <2>6. Replaced(0, opened)
      BY <2>3
    <2> HIDE DEF opened
    <2> QED  BY <2>1, <2>2, <2>4, <2>5, <2>6, DownInv
  <1>3. CASE Starts
    BY <1>3, StartInv DEF Starts
  <1>4. CASE ListAsked
    BY <1>4, ListAskedInv
  <1>5. CASE ListSettles
    BY <1>5, ListSettlesInv
  <1>6. CASE UNCHANGED lifecycleVars
    BY <1>6 DEF lifecycleVars, LifecycleInv, LifecycleSound, MadeInVain, Started
  <1> QED  BY <1>1, <1>2, <1>3, <1>4, <1>5, <1>6 DEF LifecycleNext

\* Nothing of a former run stays open but what refused to stop and the sources of a
\* start that threw, none of its outcomes is shown, the run that is up holds its source, and a run whose start
\* failed never says healthy: for any outputs, any teardown order and any series of
\* starts, stops and failures (plugin.ts: start, teardown; output-registry.ts).
THEOREM NothingIsLeftBehind ==
    ASSUME LifecycleConstants
    PROVE  LifecycleSpec => []LifecycleSound
  <1>1. LifecycleInv => LifecycleSound
    BY DEF LifecycleInv
  <1>2. LifecycleInv /\ [LifecycleNext]_lifecycleVars => LifecycleInv'
    BY StepInv
  <1> QED  BY <1>1, <1>2, InitInv, PTL DEF LifecycleSpec

-----------------------------------------------------------------------------
(* The World Port Index. *)

\* What the lists wait for is out, and nothing else.
LEMMA ListsWaitForTheDump ==
    ASSUME OneDownload, NEW c \in Callers, calls[c].kind = "list"
    PROVE  dump = "out"
  BY DEF OneDownload, Waiting, Idle

\* After a step nobody waits when all the calls have been answered.
LEMMA NobodyWaits ==
    ASSUME calls' = [c \in Callers |-> Idle], late' = {}, dump' # "out"
    PROVE  OneDownload'
  BY DEF OneDownload, Waiting

\* The kinds of a call are told apart.
LEMMA CallsApart ==
    /\ Idle \in Calls /\ Asking \in Calls /\ Asking # Idle
    /\ \A view \in Views : ListOf(view) \in Calls /\ ListOf(view) # Idle
    /\ \A call \in Calls : call.kind = "list" => call.view \in Views
    /\ \A call \in Calls : call.view \in SUBSET Ports /\ call.kind # "late"
    /\ Nothing \in [view: SUBSET Ports, ports: SUBSET Ports]
  <1>1. /\ Idle \in Calls /\ Asking \in Calls
        /\ Idle.kind = "none" /\ Asking.kind = "detail" /\ Idle.view = {} /\ Asking.view = {}
    BY DEF Calls, Idle, Asking
  <1>2. ASSUME NEW view \in Views
        PROVE  ListOf(view) \in Calls /\ ListOf(view).kind = "list" /\ ListOf(view).view = view
    BY DEF Calls, ListOf
  <1>3. ASSUME NEW call \in Calls
        PROVE  /\ call.kind = "list" => call.view \in Views
               /\ call.view \in SUBSET Ports /\ call.kind # "late"
    <2>1. call = Idle \/ call = Asking \/ \E view \in Views : call = ListOf(view)
      BY DEF Calls
    <2>2. Views \subseteq SUBSET Ports
      BY WholeSetConstants
    <2> QED BY <1>1, <1>2, <2>1, <2>2
  <1>4. Nothing \in [view: SUBSET Ports, ports: SUBSET Ports]
    BY DEF Nothing
  <1> QED BY <1>1, <1>2, <1>3, <1>4

\* The rows of a list are ports of its viewport.
LEMMA RowsShape ==
    ASSUME NEW view \in SUBSET Ports, NEW ports \in SUBSET Ports
    PROVE  /\ Rows(view, Usable(ports)) \in [view: SUBSET Ports, ports: SUBSET Ports]
           /\ Rows(view, ports) \in [view: SUBSET Ports, ports: SUBSET Ports]
           /\ Rows(view, ports).view = view
  BY DEF Rows, Usable

LEMMA InitHonest == WholeInit => WholeSetHonest
  <1> SUFFICES ASSUME WholeInit PROVE WholeSetHonest
    OBVIOUS
  <1>1. WholeTypeOK
    BY CallsApart DEF WholeInit, WholeTypeOK
  <1>2. OneDownload
    BY DEF WholeInit, OneDownload, Waiting
  <1> QED  BY <1>1, <1>2 DEF WholeInit, WholeSetHonest, InFailureCoolDown

LEMMA ListHonest ==
    ASSUME WholeSetHonest, NEW c \in Callers, NEW view \in Views, List(c, view)
    PROVE  WholeSetHonest'
  <1>1. WholeTypeOK'
    <2>1. Quietly \in SUBSET Ports /\ view \in SUBSET Ports
      BY WholeSetConstants DEF Quietly, Usable, WholeSetHonest, WholeTypeOK
    <2>2. Rows(view, Quietly) \in [view: SUBSET Ports, ports: SUBSET Ports]
      BY <2>1, RowsShape
    <2>3. ListOf(view) \in Calls
      BY CallsApart
    <2> QED BY <2>2, <2>3 DEF List, WholeSetHonest, WholeTypeOK
  <1>2. OneDownload'
    BY CallsApart DEF List, WholeSetHonest, WholeTypeOK, OneDownload, Waiting
  <1>3. (fresh \/ listed # {} => listed = Usable(cache))'
    BY DEF List, WholeSetHonest, Usable
  <1>4. (InFailureCoolDown /\ FailureTold => row.reach = "no")'
    BY DEF List, WholeSetHonest, InFailureCoolDown, FailureTold, Usable
  <1> QED  BY <1>1, <1>2, <1>3, <1>4 DEF WholeSetHonest

LEMMA DetailHonest ==
    ASSUME WholeSetHonest, NEW c \in Callers, NEW port \in Ports, Detail(c, port)
    PROVE  WholeSetHonest'
  <1>1. WholeTypeOK'
    BY CallsApart DEF Detail, WholeSetHonest, WholeTypeOK
  <1>2. OneDownload'
    BY CallsApart DEF Detail, WholeSetHonest, WholeTypeOK, OneDownload, Waiting
  <1>3. (fresh \/ listed # {} => listed = Usable(cache))'
    BY DEF Detail, WholeSetHonest, Usable
  <1>4. (InFailureCoolDown /\ FailureTold => row.reach = "no")'
    BY DEF Detail, WholeSetHonest, InFailureCoolDown, FailureTold, Usable
  <1> QED  BY <1>1, <1>2, <1>3, <1>4 DEF WholeSetHonest

LEMMA GivesUpHonest ==
    ASSUME WholeSetHonest, NEW c \in Callers, GivesUp(c)
    PROVE  WholeSetHonest'
  <1>1. dump = "out"
    BY ListsWaitForTheDump DEF GivesUp, WholeSetHonest
  <1>2. WholeTypeOK'
    BY CallsApart DEF GivesUp, WholeSetHonest, WholeTypeOK
  <1>3. OneDownload'
    BY <1>1 DEF GivesUp, OneDownload, Waiting
  <1>4. (fresh \/ listed # {} => listed = Usable(cache))'
    BY DEF GivesUp, WholeSetHonest, Usable
  <1>5. ~InFailureCoolDown'
    BY <1>1 DEF GivesUp, InFailureCoolDown
  <1> QED  BY <1>2, <1>3, <1>4, <1>5 DEF WholeSetHonest

\* What the lists that waited are shown is typed.
LEMMA ShownTyped ==
    ASSUME WholeTypeOK, NEW ports \in SUBSET Ports,
           shown' = [c \in Callers |-> IF calls[c].kind = "list"
                                      THEN Rows(calls[c].view, Usable(ports)) ELSE shown[c]]
    PROVE  shown' \in [Callers -> [view: SUBSET Ports, ports: SUBSET Ports]]
  <1>1. ASSUME NEW c \in Callers
        PROVE  Rows(calls[c].view, Usable(ports)) \in [view: SUBSET Ports, ports: SUBSET Ports]
    <2>1. calls[c].view \in SUBSET Ports
      BY CallsApart DEF WholeTypeOK
    <2> QED BY <2>1, RowsShape
  <1> QED BY <1>1 DEF WholeTypeOK

LEMMA DumpArrivesHonest ==
    ASSUME WholeSetHonest, NEW ports \in SUBSET Ports, DumpArrives(ports)
    PROVE  WholeSetHonest'
  <1>1. WholeTypeOK'
    <2>1. shown' \in [Callers -> [view: SUBSET Ports, ports: SUBSET Ports]]
      BY ShownTyped DEF DumpArrives, WholeSetHonest
    <2> QED
      BY <2>1, CallsApart DEF DumpArrives, WholeSetHonest, WholeTypeOK, Usable, Reachable
  <1>2. OneDownload'
    BY NobodyWaits DEF DumpArrives
  <1>3. (fresh \/ listed # {} => listed = Usable(cache))'
    BY DEF DumpArrives, Usable
  <1>4. ~InFailureCoolDown'
    BY DEF DumpArrives, InFailureCoolDown
  <1> QED  BY <1>1, <1>2, <1>3, <1>4 DEF WholeSetHonest

\* A failure is told to whoever waited, and to the late lists that have a port to show.
LEMMA DumpFailsHonest ==
    ASSUME WholeSetHonest, DumpFails
    PROVE  WholeSetHonest'
  <1>1. WholeTypeOK'
    <2>1. cache \in SUBSET Ports /\ WholeTypeOK
      BY DEF WholeSetHonest, WholeTypeOK
    <2>2. shown' \in [Callers -> [view: SUBSET Ports, ports: SUBSET Ports]]
      BY <2>1, ShownTyped DEF DumpFails
    <2>3. left' \in SUBSET (Calls \cup {LateOf(view) : view \in Views})
      BY <2>1 DEF DumpFails, WholeTypeOK, Waiting
    <2> QED BY <2>1, <2>2, <2>3, CallsApart DEF DumpFails, WholeTypeOK, Failed
  <1>2. OneDownload'
    BY NobodyWaits DEF DumpFails
  <1>3. (fresh \/ listed # {} => listed = Usable(cache))'
    BY DEF DumpFails, WholeSetHonest, Usable
  <1>4. ASSUME FailureTold'
        PROVE  row'.reach = "no"
    <2>1. cache' = cache /\ left' = {calls[c] : c \in Waiting} \cup {LateOf(view) : view \in late}
      BY DEF DumpFails
    <2>2. PICK call \in left' : call.kind # "late" \/ Usable(cache) \cap call.view # {}
      BY <1>4, <2>1 DEF FailureTold, Usable
    <2>3. CASE call \in {calls[c] : c \in Waiting}
      <3>1. Waiting # {}
        BY <2>3
      <3> QED BY <3>1 DEF DumpFails, Failed
    <2>4. CASE call \in {LateOf(view) : view \in late}
      <3>1. PICK view \in late : call = LateOf(view)
        BY <2>4
      <3>2. Usable(cache) \cap view # {}
        BY <2>2, <3>1 DEF LateOf
      <3> QED BY <3>2 DEF DumpFails, Failed
    <2> QED  BY <2>1, <2>2, <2>3, <2>4
  <1>5. (InFailureCoolDown /\ FailureTold => row.reach = "no")'
    BY <1>4
  <1> QED  BY <1>1, <1>2, <1>3, <1>5 DEF WholeSetHonest

LEMMA WindowEndsHonest ==
    ASSUME WholeSetHonest, WindowEnds
    PROVE  WholeSetHonest'
  <1>1. WholeTypeOK'
    BY DEF WindowEnds, WholeSetHonest, WholeTypeOK
  <1>2. OneDownload'
    BY DEF WindowEnds, WholeSetHonest, OneDownload, Waiting, InFailureCoolDown
  <1>3. (fresh \/ listed # {} => listed = Usable(cache))'
    BY DEF WindowEnds, WholeSetHonest, Usable
  <1>4. (InFailureCoolDown /\ FailureTold => row.reach = "no")'
    BY DEF WindowEnds, WholeSetHonest, InFailureCoolDown, FailureTold, Usable
  <1> QED  BY <1>1, <1>2, <1>3, <1>4 DEF WholeSetHonest

LEMMA StepHonest == WholeSetHonest /\ [WholeNext]_wholeVars => WholeSetHonest'
  <1> SUFFICES ASSUME WholeSetHonest, [WholeNext]_wholeVars PROVE WholeSetHonest'
    OBVIOUS
  <1>1. ASSUME NEW c \in Callers, NEW view \in Views, List(c, view) PROVE WholeSetHonest'
    BY <1>1, ListHonest
  <1>2. ASSUME NEW c \in Callers, GivesUp(c) PROVE WholeSetHonest'
    BY <1>2, GivesUpHonest
  <1>3. ASSUME NEW c \in Callers, NEW port \in Ports, Detail(c, port) PROVE WholeSetHonest'
    BY <1>3, DetailHonest
  <1>4. ASSUME NEW ports \in SUBSET Ports, DumpArrives(ports) PROVE WholeSetHonest'
    BY <1>4, DumpArrivesHonest
  <1>5. CASE DumpFails
    BY <1>5, DumpFailsHonest
  <1>6. CASE WindowEnds
    BY <1>6, WindowEndsHonest
  <1>7. CASE UNCHANGED wholeVars
    BY <1>7 DEF wholeVars, WholeSetHonest, WholeTypeOK, OneDownload, Waiting,
                InFailureCoolDown, FailureTold, Usable
  <1> QED  BY <1>1, <1>2, <1>3, <1>4, <1>5, <1>6, <1>7 DEF WholeNext

\* The types, the joined download, the rows and the status row of wpi-source.ts.
THEOREM SetStaysHonest == WholeSpec => []WholeSetHonest
  BY InitHonest, StepHonest, PTL DEF WholeSpec

-----------------------------------------------------------------------------
\* What a list answers that needs no download is all there is to show.
LEMMA QuietlyIsUsable ==
    ASSUME WholeSetHonest
    PROVE  Quietly = Usable(cache)
  BY DEF WholeSetHonest, Quietly, Usable

LEMMA ShownIsUsable ==
    ASSUME WholeSetHonest, [WholeNext]_wholeVars, NEW c \in Callers,
           shown'[c] # shown[c], shown'[c] # Nothing
    PROVE  shown'[c] = Rows(shown'[c].view, Usable(cache'))
  <1>1. shown \in [Callers -> [view: SUBSET Ports, ports: SUBSET Ports]]
    BY DEF WholeSetHonest, WholeTypeOK
  <1>2. ASSUME NEW d \in Callers, NEW view \in Views, List(d, view)
        PROVE  shown'[c] = Rows(shown'[c].view, Usable(cache'))
    <2>1. shown'[c] = Rows(view, Usable(cache'))
      BY <1>1, <1>2, QuietlyIsUsable DEF List
    <2> QED BY <2>1 DEF Rows
  <1>3. ASSUME NEW d \in Callers, GivesUp(d) PROVE FALSE
    BY <1>1, <1>3 DEF GivesUp
  <1>4. ASSUME NEW ports \in SUBSET Ports, DumpArrives(ports)
        PROVE  shown'[c] = Rows(shown'[c].view, Usable(cache'))
    <2>1. shown'[c] = Rows(calls[c].view, Usable(cache'))
      BY <1>4 DEF DumpArrives
    <2> QED BY <2>1 DEF Rows
  <1>5. ASSUME DumpFails PROVE shown'[c] = Rows(shown'[c].view, Usable(cache'))
    <2>1. shown'[c] = Rows(calls[c].view, Usable(cache'))
      BY <1>5 DEF DumpFails
    <2> QED BY <2>1 DEF Rows
  <1>6. ASSUME NEW d \in Callers, NEW port \in Ports, Detail(d, port) PROVE FALSE
    BY <1>6 DEF Detail
  <1>7. ASSUME WindowEnds \/ UNCHANGED wholeVars PROVE FALSE
    BY <1>7 DEF WindowEnds, wholeVars
  <1> QED  BY <1>2, <1>3, <1>4, <1>5, <1>6, <1>7 DEF WholeNext

\* A cool-down asks nothing: no list that could be given up is out.
LEMMA CoolDownIsQuiet ==
    ASSUME WholeSetHonest, [WholeNext]_wholeVars, InFailureCoolDown
    PROVE  dump' # "out" /\ row' = row
  <1>1. dump = "cooling"
    BY DEF InFailureCoolDown
  <1>2. ASSUME NEW c \in Callers, NEW view \in Views, List(c, view)
        PROVE  dump' # "out" /\ row' = row
    BY <1>1, <1>2 DEF List, NothingToDo, InFailureCoolDown
  <1>3. ASSUME NEW c \in Callers, NEW port \in Ports, Detail(c, port)
        PROVE  dump' # "out" /\ row' = row
    BY <1>1, <1>3 DEF Detail, AsksForSet, NothingToDo, InFailureCoolDown
  <1>4. ASSUME NEW c \in Callers, GivesUp(c) PROVE FALSE
    BY <1>1, <1>4, ListsWaitForTheDump DEF GivesUp, WholeSetHonest
  <1>5. ASSUME DumpFails \/ \E ports \in SUBSET Ports : DumpArrives(ports) PROVE FALSE
    BY <1>1, <1>5 DEF DumpFails, DumpArrives
  <1>6. ASSUME WindowEnds \/ UNCHANGED wholeVars PROVE dump' # "out" /\ row' = row
    BY <1>1, <1>6 DEF WindowEnds, wholeVars
  <1> QED  BY <1>2, <1>3, <1>4, <1>5, <1>6 DEF WholeNext

\* The index never goes blank, a failed download is repeated by nobody before its
\* cool-down has ended, and the row and the rows stay true, for any callers, ports
\* and order of their calls (wpi-source.ts: listPointsOfInterest, getDetails,
\* ensureFresh, refreshDataset).
THEOREM PortsAreKept == WholeSpec => PortsKept
  <1>1. WholeSetHonest /\ [WholeNext]_wholeVars =>
            [\A c \in Callers :
                shown'[c] # shown[c] /\ shown'[c] # Nothing =>
                    shown'[c] = Rows(shown'[c].view, Usable(cache'))]_wholeVars
    BY ShownIsUsable
  <1>2. WholeSetHonest /\ [WholeNext]_wholeVars =>
            [InFailureCoolDown => dump' # "out" /\ row' = row]_wholeVars
    BY CoolDownIsQuiet
  <1>3. WholeSpec => NeverBlank
    BY <1>1, SetStaysHonest, PTL DEF WholeSpec, NeverBlank
  <1>4. WholeSpec => CoolDownHolds
    BY <1>2, SetStaysHonest, PTL DEF WholeSpec, CoolDownHolds
  <1> QED  BY SetStaysHonest, <1>3, <1>4 DEF PortsKept
-----------------------------------------------------------------------------
(* The settings. *)

\* What the panel can show for a field, besides the lines of the mirrors.
Resolved(f, value) ==
    /\ f \in Toggles => value \in {"true", "false"}
    /\ f \in Numeric => value \in Nat /\ value # NoNumber
    /\ f = "capped" => value > 0
    /\ f \in Numeric \ {"airDraft"} => value <= Largest
    /\ f \in {"debounce", "periodic"} => Truncated(value) = value
    /\ f = "year" => ClampYear(value) = value
    /\ f = "primary" => value \in Endpoints \cup {"default", "blank", Junk}

\* A field of a configuration that can be resolved at all.
Resolvable(f, value) == f \in Numeric => value \in Int

LEMMA TruncatedBounds ==
    ASSUME NEW v \in Int
    PROVE  /\ Truncated(v) \in Int /\ v - 1 <= Truncated(v) /\ Truncated(v) <= v
           /\ Truncated(v) % 2 = 0 /\ Truncated(Truncated(v)) = Truncated(v)
           /\ v >= 0 => Truncated(v) >= 0
  BY DEF Truncated

LEMMA ClampBounds ==
    ASSUME NEW v \in Int, v # NoNumber, NEW min \in 0..Largest
    PROVE  ClampNumber(v, min) \in min..Largest /\ (v \in min..Largest => ClampNumber(v, min) = v)
  BY SettingsAssumption DEF ClampNumber, Least, Greatest

\* Zero and the numbers of a field are none of them the absent one.
LEMMA NoNumberApart ==
    NoNumber \in Int /\ (\A v \in 0..Largest : v # NoNumber) /\ Largest \in Nat
  BY SettingsAssumption

LEMMA YearResolves ==
    ASSUME NEW v \in Int
    PROVE  ClampYear(v) \in 0..Largest /\ ClampYear(ClampYear(v)) = ClampYear(v)
  <1>1. CASE v = NoNumber \/ v <= 0
    BY <1>1, SettingsAssumption DEF ClampYear
  <1>2. CASE v # NoNumber /\ v > 0
    <2> DEFINE c == ClampNumber(v, MinYear)
               t == Truncated(c)
    <2>1. MinYear \in 1..Largest /\ Largest \in Nat
      BY SettingsAssumption
    <2>2. c \in MinYear..Largest /\ ClampYear(v) = t
      BY <1>2, <2>1, ClampBounds DEF ClampYear
    <2>3. t \in 0..Largest /\ c - 1 <= t /\ t <= c /\ t % 2 = 0
      BY <2>1, <2>2, TruncatedBounds
    <2>4. t # NoNumber
      BY <2>3, NoNumberApart
    <2> HIDE DEF c, t
    <2>5. CASE t = 0
      BY <2>1, <2>2, <2>3, <2>5 DEF ClampYear
    <2>6. CASE t > 0 /\ t >= MinYear
      <3>1. ClampNumber(t, MinYear) = t
        BY <2>1, <2>3, <2>4, <2>6, ClampBounds
      <3>2. Truncated(t) = t
        BY <2>3 DEF Truncated
      <3>3. ClampYear(t) = t
        BY <2>1, <2>3, <2>4, <2>6, <3>1, <3>2 DEF ClampYear
      <3> QED  BY <2>2, <2>3, <3>3
    <2>7. CASE t > 0 /\ t < MinYear
      <3>1. t = MinYear - 1 /\ ClampNumber(t, MinYear) = MinYear
        BY <2>1, <2>2, <2>3, <2>4, <2>7 DEF ClampNumber, Least, Greatest
      <3>2. Truncated(MinYear) = t
        BY <2>1, <2>3, <3>1 DEF Truncated
      <3>3. ClampYear(t) = t
        BY <2>3, <2>4, <2>7, <3>1, <3>2 DEF ClampYear
      <3> QED  BY <2>2, <2>3, <3>3
    <2> QED  BY <2>1, <2>2, <2>3, <2>5, <2>6, <2>7
  <1> QED  BY <1>1, <1>2

LEMMA DebounceResolves ==
    ASSUME NEW v \in Int
    PROVE  /\ ClampDebounce(v) \in 0..Largest /\ Truncated(ClampDebounce(v)) = ClampDebounce(v)
           /\ EffectivePeriodic(v) \in 1..Largest
           /\ Truncated(EffectivePeriodic(v)) = EffectivePeriodic(v)
           /\ v \in 0..Largest /\ Truncated(v) = v =>
                 /\ ClampDebounce(v) = v
                 /\ EffectivePeriodic(v) = IF v = 0 THEN Fallback ELSE v
  <1>1. Fallback \in 1..Largest /\ Largest \in Nat /\ Truncated(Fallback) = Fallback
    BY SettingsAssumption DEF Truncated
  <1>2. /\ ClampDebounce(v) \in 0..Largest /\ Truncated(ClampDebounce(v)) = ClampDebounce(v)
        /\ v \in 0..Largest /\ Truncated(v) = v => ClampDebounce(v) = v
    <2>1. CASE v = NoNumber
      BY <1>1, <2>1, NoNumberApart DEF ClampDebounce
    <2>2. CASE v # NoNumber
      <3>1. ClampNumber(v, 0) \in 0..Largest /\ (v \in 0..Largest => ClampNumber(v, 0) = v)
        BY <1>1, <2>2, ClampBounds
      <3> QED  BY <1>1, <2>2, <3>1, TruncatedBounds DEF ClampDebounce
    <2> QED  BY <2>1, <2>2
  <1> QED  BY <1>1, <1>2 DEF EffectivePeriodic

\* The panel shows what resolves to itself.
LEMMA ShownResolves ==
    ASSUME NEW f \in Fields, NEW raw, Resolvable(f, raw)
    PROVE  Resolved(f, Shown(f, raw))
  <1>0. NoNumber \in Int /\ Largest \in Nat /\ Fallback \in 1..Largest
    BY SettingsAssumption
  <1>1. CASE f \in Toggles
    BY <1>1, SettingsAssumption DEF Resolved, Shown, Toggles, Numeric
  <1>2. CASE f = "capped"
    BY <1>0, <1>2, SettingsAssumption, NoNumberApart
    DEF Resolved, Resolvable, Shown, PositiveCapped, Least, Toggles, Numeric
  <1>3. CASE f = "clamped"
    <2>1. raw \in Int /\ Shown(f, raw) = ClampNumber(raw, 0) /\ f \notin Toggles
      BY <1>3, SettingsAssumption DEF Resolvable, Shown, Numeric, Toggles
    <2>2. ClampNumber(raw, 0) \in 0..Largest
      BY <1>0, <2>1, ClampBounds DEF ClampNumber
    <2> QED  BY <1>0, <1>3, <2>1, <2>2, NoNumberApart DEF Resolved
  <1>4. CASE f = "debounce"
    <2>1. raw \in Int /\ Shown(f, raw) = ClampDebounce(raw) /\ f \notin Toggles
      BY <1>4, SettingsAssumption DEF Resolvable, Shown, Numeric, Toggles
    <2> QED  BY <1>0, <1>4, <2>1, DebounceResolves, NoNumberApart DEF Resolved
  <1>5. CASE f = "periodic"
    <2>1. raw \in Int /\ Shown(f, raw) = EffectivePeriodic(raw) /\ f \notin Toggles
      BY <1>5, SettingsAssumption DEF Resolvable, Shown, ShownInterval, Numeric, Toggles
    <2> QED  BY <1>0, <1>5, <2>1, DebounceResolves, NoNumberApart DEF Resolved
  <1>6. CASE f = "year"
    <2>1. raw \in Int /\ Shown(f, raw) = ClampYear(raw) /\ f \notin Toggles
      BY <1>6, SettingsAssumption DEF Resolvable, Shown, Numeric, Toggles
    <2> QED  BY <1>0, <1>6, <2>1, YearResolves, NoNumberApart DEF Resolved
  <1>7. CASE f = "airDraft"
    BY <1>0, <1>7, SettingsAssumption, NoNumberApart
    DEF Resolved, Resolvable, Shown, Toggles, Numeric
  <1>8. CASE f = "primary"
    BY <1>8, SettingsAssumption DEF Resolved, Shown, PrimaryEndpoint, Toggles, Numeric
  <1>9. CASE f = "mirrors"
    BY <1>9, SettingsAssumption DEF Resolved, Toggles, Numeric
  <1> QED
    BY <1>1, <1>2, <1>3, <1>4, <1>5, <1>6, <1>7, <1>8, <1>9 DEF Fields, Numeric

\* What a control sets a field to is what the panel can show.
LEMMA EditableResolves ==
    ASSUME NEW f \in Fields, NEW value \in Editable(f)
    PROVE  Resolved(f, value)
  <1>1. CASE f \in Toggles
    BY <1>1, SettingsAssumption DEF Resolved, Editable, Toggles, Numeric
  <1>2. CASE f \in Numeric \ {"periodic"}
    <2>1. PICK raw \in Numbers : value = Shown(f, raw)
      BY <1>2, SettingsAssumption DEF Editable, Toggles, Numeric
    <2>2. Resolvable(f, raw)
      BY SettingsAssumption DEF Resolvable
    <2> QED  BY <2>1, <2>2, ShownResolves
  <1>3. CASE f = "primary"
    BY <1>3, SettingsAssumption DEF Resolved, Editable, Toggles, Numeric
  <1>4. CASE f = "mirrors"
    BY <1>4, SettingsAssumption DEF Resolved, Toggles, Numeric
  <1>5. CASE f = "periodic"
    <2>1. PICK raw \in Numbers : value = ClampDebounce(raw)
      BY <1>5, SettingsAssumption DEF Editable, Toggles, Numeric
    <2>2. raw \in Int /\ f \notin Toggles
      BY <1>5, SettingsAssumption DEF Toggles, Numeric
    <2> QED  BY <1>5, <2>1, <2>2, DebounceResolves, NoNumberApart DEF Resolved
  <1> QED  BY <1>1, <1>2, <1>3, <1>4, <1>5 DEF Fields

\* The plugin takes what was shown for what it means, and a panel shows it again.
LEMMA TakenAsMeant ==
    ASSUME NEW config, NEW f \in DOMAIN config, f \in Fields, Resolved(f, config[f]),
           f = "primary" => config[f] # Junk
    PROVE  Used(config, f) = Meant(f, config[f]) /\ Shown(f, config[f]) = Used(config, f)
  <1> DEFINE v == config[f]
  <1>0. NoNumber \in Int /\ Largest \in Nat /\ Fallback \in 1..Largest
    BY SettingsAssumption
  <1>1. CASE f \in PoiFlags
    <2>1. v \in {"true", "false"} /\ f \in DOMAIN config \cap PoiFlags
      BY <1>1 DEF Resolved, Toggles
    <2>2. f \in Selected(config) <=> v = "true"
      BY <2>1 DEF Selected
    <2>3. f \notin Numeric /\ f \notin {"optIn", "optOut", "primary", "mirrors"}
      BY <1>1, SettingsAssumption
    <2> QED  BY <1>1, <2>1, <2>2, <2>3 DEF Used, Meant, Shown, Numeric
  <1>2. CASE f \in {"optIn", "optOut"}
    BY <1>2, SettingsAssumption DEF Resolved, Toggles, Used, Meant, Shown
  <1>3. CASE f = "capped"
    <2>1. v \in 1..Largest /\ v # NoNumber /\ f \notin PoiFlags
      BY <1>0, <1>3, SettingsAssumption DEF Resolved, Numeric
    <2>2. PositiveCapped(v) = v
      BY <1>0, <2>1 DEF PositiveCapped, Least
    <2> QED  BY <1>3, <2>1, <2>2 DEF Used, Meant, Shown
  <1>4. CASE f = "clamped"
    <2>1. v \in 0..Largest /\ v # NoNumber /\ f \notin PoiFlags
      BY <1>0, <1>4, SettingsAssumption DEF Resolved, Numeric
    <2>2. ClampNumber(v, 0) = v
      BY <1>0, <2>1, ClampBounds
    <2> QED  BY <1>4, <2>1, <2>2 DEF Used, Meant, Shown
  <1>5. CASE f \in {"debounce", "periodic"}
    <2>1. v \in 0..Largest /\ Truncated(v) = v /\ f \notin PoiFlags
      BY <1>0, <1>5, SettingsAssumption DEF Resolved, Numeric
    <2>2. ClampDebounce(v) = v /\ EffectivePeriodic(v) = IF v = 0 THEN Fallback ELSE v
      BY <1>0, <2>1, DebounceResolves
    <2> QED  BY <1>5, <2>1, <2>2 DEF Used, Meant, Shown, ShownInterval
  <1>6. CASE f = "year"
    <2>1. ClampYear(v) = v /\ f \notin PoiFlags
      BY <1>6, SettingsAssumption DEF Resolved, Numeric
    <2> QED  BY <1>6, <2>1 DEF Used, Meant, Shown
  <1>7. CASE f = "airDraft"
    <2>1. v \in Nat /\ v # NoNumber /\ f \notin PoiFlags
      BY <1>7, SettingsAssumption DEF Resolved, Numeric
    <2> QED  BY <1>7, <2>1 DEF Used, Meant, Shown
  <1>8. CASE f = "primary"
    BY <1>8, SettingsAssumption DEF Resolved, Used, Meant, Shown, PrimaryEndpoint, Junk
  <1>9. CASE f = "mirrors"
    BY <1>9, SettingsAssumption DEF Used, Meant, Shown
  <1> QED
    BY <1>1, <1>2, <1>3, <1>4, <1>5, <1>6, <1>7, <1>8, <1>9 DEF Fields, Toggles, Numeric

-----------------------------------------------------------------------------
IsFunction(c) == c = [f \in DOMAIN c |-> c[f]]

SessionTypes ==
    /\ DOMAIN stored \subseteq Fields
    /\ DOMAIN prop = DOMAIN stored /\ DOMAIN state = DOMAIN stored
    /\ DOMAIN requested = DOMAIN stored
    /\ IsFunction(state)
    /\ \A f \in DOMAIN stored : Resolvable(f, stored[f]) /\ Resolvable(f, prop[f])
    /\ \A f \in DOMAIN stored : Resolved(f, state[f]) /\ Resolved(f, requested[f])
    /\ IsFunction(requested)

\* What was saved is what is stored and what runs, and could be saved.
SavedRuns ==
    saved # <<>> =>
        /\ stored = saved /\ running = saved /\ EndpointsValid(saved)
        /\ \A f \in DOMAIN saved : Resolved(f, saved[f])

\* The inductive invariant.
SettingsInv == SessionTypes /\ SavedRuns /\ (same => state = requested) /\ same \in BOOLEAN

LEMMA ResolvedIsResolvable ==
    ASSUME NEW f, NEW value, Resolved(f, value)
    PROVE  Resolvable(f, value)
  BY DEF Resolved, Resolvable

LEMMA SetToItself ==
    ASSUME NEW c, IsFunction(c), NEW f \in DOMAIN c
    PROVE  [c EXCEPT ![f] = c[f]] = c
  BY DEF IsFunction

\* A panel mounted on a configuration shows it resolved.
LEMMA MountedTypes ==
    ASSUME NEW c, DOMAIN c \subseteq Fields, \A f \in DOMAIN c : Resolvable(f, c[f])
    PROVE  /\ DOMAIN NormalizeConfig(c) = DOMAIN c /\ IsFunction(NormalizeConfig(c))
           /\ \A f \in DOMAIN c : Resolved(f, NormalizeConfig(c)[f])
  BY ShownResolves DEF NormalizeConfig, IsFunction

LEMMA SettingsStep ==
    ASSUME SettingsInv, [SettingsNext]_settingsVars
    PROVE  SettingsInv'
  <1> USE DEF SettingsInv
  <1>1. CASE Edit
    <2>1. PICK f \in DOMAIN state : \E value \in Editable(f) :
              /\ state' = [state EXCEPT ![f] = value]
              /\ same' = SetField(f, value)
              /\ UNCHANGED <<stored, running, prop, requested, saved>>
      BY <1>1 DEF Edit
    <2>2. PICK value \in Editable(f) :
              /\ state' = [state EXCEPT ![f] = value]
              /\ same' = SetField(f, value)
              /\ UNCHANGED <<stored, running, prop, requested, saved>>
      BY <2>1
    <2>3. f \in Fields /\ Resolved(f, value)
      BY EditableResolves DEF SessionTypes
    <2>4. DOMAIN state' = DOMAIN state /\ \A g \in DOMAIN state : Resolved(g, state'[g])
      BY <2>2, <2>3 DEF SessionTypes
    <2>5. IsFunction(state')
      BY <2>2 DEF IsFunction
    <2>6. SessionTypes' /\ SavedRuns'
      BY <2>2, <2>4, <2>5 DEF SessionTypes, SavedRuns, IsFunction
    <2>7. same' => state' = requested'
      BY <2>2, SetToItself DEF SetField, SessionTypes
    <2>8. same' \in BOOLEAN
      BY <2>2 DEF SetField
    <2> QED  BY <2>6, <2>7, <2>8
  <1>2. CASE Save
    <2>1. /\ EndpointsValid(state) /\ prop' = state /\ requested' = state /\ same' = TRUE
          /\ state' = state
      BY <1>2 DEF Save
    <2>2. \A f \in DOMAIN state : Resolvable(f, state[f])
      BY ResolvedIsResolvable DEF SessionTypes
    <2>3. CASE stored' = state /\ running' = state /\ saved' = state
      BY <2>1, <2>2, <2>3 DEF SessionTypes, SavedRuns, IsFunction
    <2>4. CASE UNCHANGED <<stored, running, saved>>
      BY <2>1, <2>2, <2>4 DEF SessionTypes, SavedRuns, IsFunction
    <2> QED  BY <1>2, <2>3, <2>4 DEF Save
  <1>3. CASE Discard
    BY <1>3 DEF Discard, SessionTypes, SavedRuns, IsFunction
  <1>4. CASE Reopen
    <2>1. /\ prop' \in {prop, stored} /\ state' = NormalizeConfig(prop') /\ requested' = state'
          /\ same' = TRUE /\ UNCHANGED <<stored, running, saved>>
      BY <1>4 DEF Reopen, Mounts
    <2>2. /\ DOMAIN prop' = DOMAIN stored /\ DOMAIN stored \subseteq Fields
          /\ \A f \in DOMAIN stored : Resolvable(f, prop'[f])
      BY <2>1 DEF SessionTypes
    <2>3. /\ DOMAIN state' = DOMAIN stored /\ IsFunction(state')
          /\ \A f \in DOMAIN stored : Resolved(f, state'[f])
      BY <2>1, <2>2, MountedTypes
    <2>4. SessionTypes' /\ SavedRuns'
      BY <2>1, <2>2, <2>3 DEF SessionTypes, SavedRuns, IsFunction
    <2> QED  BY <2>1, <2>4
  <1>5. CASE UNCHANGED settingsVars
    BY <1>5 DEF settingsVars, SessionTypes, SavedRuns, IsFunction
  <1> QED  BY <1>1, <1>2, <1>3, <1>4, <1>5 DEF SettingsNext

\* Once a save has got through, the plugin runs with what the panel showed, an interval
\* "left at 0" being the default's, and a panel opened on what was saved shows what the
\* plugin runs with (normalize-config.ts and the resolvers of the modules).
THEOREM PanelAndPluginAgree == SettingsSpec => []SettingsSound
  <1>1. ASSUME SettingsInit PROVE SettingsInv
    <2>1. PICK form \in Forms : /\ stored \in [form -> UNION {StoredValues(f) : f \in form}]
                                /\ \A f \in form : stored[f] \in StoredValues(f)
      BY <1>1 DEF SettingsInit
    <2>2. DOMAIN stored = form /\ form \subseteq Fields
      BY <2>1, SettingsAssumption
    <2>3. ASSUME NEW f \in form PROVE Resolvable(f, stored[f])
      <3>1. f \in Numeric => StoredValues(f) = Numbers \cup {NoNumber}
        BY SettingsAssumption DEF StoredValues, Numeric, Toggles
      <3> QED  BY <2>1, <3>1, SettingsAssumption DEF Resolvable
    <2>4. /\ DOMAIN state = form /\ IsFunction(state)
          /\ \A f \in form : Resolved(f, state[f])
      BY <1>1, <2>2, <2>3, MountedTypes DEF SettingsInit
    <2> QED
      BY <1>1, <2>2, <2>3, <2>4 DEF SettingsInit, SettingsInv, SessionTypes, SavedRuns
  <1>2. ASSUME SettingsInv, [SettingsNext]_settingsVars PROVE SettingsInv'
    BY <1>2, SettingsStep
  <1>3. ASSUME SettingsInv PROVE SettingsSound
    <2>1. ASSUME saved # <<>>, NEW f \in DOMAIN saved
          PROVE  /\ Used(running, f) = Meant(f, saved[f])
                 /\ f = "mirrors" => ~Contains(saved[f], Junk)
                 /\ Shown(f, stored[f]) = Used(running, f)
      <3>1. /\ stored = saved /\ running = saved /\ EndpointsValid(saved)
            /\ Resolved(f, saved[f]) /\ f \in Fields
        BY <1>3, <2>1 DEF SettingsInv, SavedRuns, SessionTypes
      <3>2. /\ f = "primary" => saved[f] # Junk
            /\ f = "mirrors" => ~Contains(saved[f], Junk)
        BY <3>1 DEF EndpointsValid
      <3> QED  BY <3>1, <3>2, TakenAsMeant
    <2> QED  BY <1>3, <2>1 DEF SettingsInv, SettingsSound
  <1> QED  BY <1>1, <1>2, <1>3, PTL DEF SettingsSpec

-----------------------------------------------------------------------------
(***************************************************************************)
(* The cadence: the gates derived from the alarm radii keep every zone in  *)
(* sight.                                                                  *)
(*                                                                         *)
(* Of the last fix that did not evaluate one of two things holds: it came  *)
(* within the shortest interval of the evaluation, and the speed bounds    *)
(* how far it is from it; or it was under the sampling distance.  One more *)
(* fix then adds at most a second at the top speed.  At a steady speed the *)
(* first of them already covers a second (Steady), so that both the        *)
(* distance before the last fix and the one it adds are under the sampling *)
(* distance, and twice that is within the chord; or the sampling distance  *)
(* is the floor, and the speed is not one that is lost to it.              *)
(***************************************************************************)

\* The least of a set of naturals.
LEMMA LeastIsLeast ==
    ASSUME NEW S, S \subseteq Nat, S # {}
    PROVE  LeastOf(S) \in S /\ \A y \in S : LeastOf(S) <= y
<1>1. PICK x \in S : \A y \in S : ~(<<y, x>> \in OpToRel(<, Nat))
  BY WFMin, NatLessThanWellFounded
<1>2. ASSUME NEW y \in S PROVE x <= y
  <2>1. x \in Nat /\ y \in Nat
    OBVIOUS
  <2>2. y < x => <<y, x>> \in OpToRel(<, Nat)
    BY <2>1 DEF OpToRel
  <2>3. ~(y < x)
    BY <1>1, <2>2, Zenon
  <2>4. QED
    BY <2>1, <2>3
<1>3. QED
  BY <1>2 DEF LeastOf

LEMMA TimesKeepsOrder ==
    ASSUME NEW a \in Nat, NEW b \in Nat, NEW t \in Nat, a <= b
    PROVE  a * t \in Nat /\ a * t <= b * t
OBVIOUS

LEMMA TimesAdds ==
    ASSUME NEW a \in Nat, NEW s \in Nat, NEW t \in Nat
    PROVE  a * (s + t) = a * s + a * t /\ a * s \in Nat /\ a * t \in Nat
OBVIOUS

LEMMA TimesGrows ==
    ASSUME NEW a \in Nat, NEW s \in Nat, NEW t \in Nat, s <= t
    PROVE  a * s <= a * t
OBVIOUS

-----------------------------------------------------------------------------
(* The gates. *)

Declared == radii \in (SUBSET Radii) \ {{}}

LEMMA TightestIsLeast ==
    ASSUME Declared
    PROVE  /\ TightestRadius \in radii /\ TightestRadius \in Nat /\ radii \subseteq Nat
           /\ \A r \in radii : TightestRadius <= r
<1>1. radii \subseteq Nat /\ radii # {}
  BY CadenceAssumption DEF Declared
<1>2. QED
  BY <1>1, LeastIsLeast DEF TightestRadius

LEMMA ChordIsLeast ==
    ASSUME Declared
    PROVE  CoveredChord \in Nat /\ \A r \in radii : Chord(r) \in Nat /\ CoveredChord <= Chord(r)
<1>1. ASSUME NEW a \in Nat, NEW b \in Nat, a <= b
      PROVE  Chord(a) \in Nat /\ Chord(b) \in Nat /\ Chord(a) <= Chord(b)
  BY <1>1 DEF Chord
<1>2. QED
  BY <1>1, TightestIsLeast DEF CoveredChord

\* The sampling distance is half the chord at most, or the floor.
LEMMA HalfAChord ==
    ASSUME Declared
    PROVE  /\ EvaluationMove \in Nat \ {0}
           /\ EvaluationMove = MinEvaluationMove \/ 2 * EvaluationMove <= CoveredChord
<1>1. CoveredChord \in Nat
  BY ChordIsLeast
<1>2. QED
  BY <1>1 DEF EvaluationMove, AtMost, AtLeast, MinEvaluationMove,
     MaxEvaluationMove

\* The boxes hold the zones wherever no new list is forced.
LEMMA BoxesHold ==
    ASSUME Declared
    PROVE  BoxHoldsZones
<1> DEFINE margins == {ScanRadius(r) - r : r \in radii}
<1>1. \A r \in radii : r \in Nat /\ ScanRadius(r) \in Nat /\ ScanRadius(r) - r \in Nat
  BY TightestIsLeast DEF ScanRadius, AtLeast, MinScanRadius
<1>2. margins \subseteq Nat /\ margins # {}
  BY <1>1, TightestIsLeast
<1>3. CoverageMove \in Nat /\ \A m \in margins : CoverageMove <= m
  BY <1>2, LeastIsLeast DEF CoverageMove
<1>4. \A r \in radii : CoverageMove <= ScanRadius(r) - r
  BY <1>3
<1>5. QED
  BY <1>1, <1>3, <1>4, CadenceAssumption DEF BoxHoldsZones

-----------------------------------------------------------------------------
(* The vessel they sample. *)

CadenceTypes ==
    /\ Declared /\ topSpeed \in Speeds
    /\ sinceEvaluation \in Nat /\ covered \in Nat /\ gap \in Nat /\ steady \in BOOLEAN

\* How far a fix that did not evaluate can be from the last evaluation.
Behind ==
    /\ covered <= topSpeed * sinceEvaluation
    /\ sinceEvaluation >= MinEvaluation => covered < EvaluationMove

Steady ==
    steady /\ sinceEvaluation # 0 =>
        topSpeed * MinEvaluation < EvaluationMove /\ covered < EvaluationMove

\* What the last fix found is within the tightest chord.
GapCovered ==
    /\ /\ 2 * topSpeed * MinEvaluation <= CoveredChord
       /\ topSpeed * MinEvaluation + MinEvaluationMove <= CoveredChord
       => gap <= CoveredChord
    /\ IsCoveredSpeed(topSpeed) /\ steady /\ ~LostToFloor(topSpeed) => gap <= CoveredChord

\* The inductive invariant.
CadenceInv == CadenceTypes /\ Behind /\ Steady /\ GapCovered

\* What a fix adds.
LEMMA Added ==
    ASSUME CadenceInv, NEW interval \in FixGaps, NEW speed \in Speeds, speed <= topSpeed
    PROVE  /\ interval \in 1..10 /\ topSpeed \in Nat /\ speed * interval \in Nat
           /\ speed * interval <= topSpeed * 10
           /\ covered + speed * interval <= topSpeed * (sinceEvaluation + interval)
           /\ sinceEvaluation = 0 => covered = 0
           /\ sinceEvaluation < 10 => covered <= topSpeed * 10
<1>1. /\ interval \in 1..10 /\ topSpeed \in Nat /\ speed \in Nat /\ covered \in Nat
      /\ sinceEvaluation \in Nat
  BY CadenceAssumption DEF CadenceInv, CadenceTypes, MinEvaluation
<1>2. speed * interval \in Nat /\ speed * interval <= topSpeed * interval
  BY <1>1, TimesKeepsOrder
<1>3. topSpeed * interval <= topSpeed * 10
  BY <1>1, TimesGrows
<1>4. /\ topSpeed * (sinceEvaluation + interval) = topSpeed * sinceEvaluation + topSpeed * interval
      /\ topSpeed * sinceEvaluation \in Nat /\ topSpeed * interval \in Nat
  BY <1>1, TimesAdds
<1>5. sinceEvaluation < 10 => topSpeed * sinceEvaluation <= topSpeed * 10
  BY <1>1, TimesGrows
<1>6. covered <= topSpeed * sinceEvaluation
  BY DEF CadenceInv, Behind
<1>7. sinceEvaluation = 0 => covered = 0
  BY <1>1, <1>6
<1>8. topSpeed * 10 \in Nat
  BY <1>1
<1>9. QED
  BY <1>1, <1>2, <1>3, <1>4, <1>5, <1>6, <1>7, <1>8

LEMMA FixKeeps ==
    ASSUME CadenceInv, NEW interval \in FixGaps, NEW speed \in Speeds, Fix(interval, speed)
    PROVE  CadenceInv'
<1> DEFINE elapsed  == sinceEvaluation + interval
           distance == covered + speed * interval
           E == EvaluationMove
           C == CoveredChord
<1>1. /\ speed <= topSpeed /\ UNCHANGED <<radii, topSpeed>>
      /\ steady' = ((steady \/ sinceEvaluation = 0) /\ interval = 10 /\ speed = topSpeed)
  BY DEF Fix, MinEvaluation
<1>2. /\ interval \in 1..10 /\ topSpeed \in Nat /\ speed * interval \in Nat
      /\ speed * interval <= topSpeed * 10
      /\ distance <= topSpeed * elapsed
      /\ sinceEvaluation = 0 => covered = 0
      /\ sinceEvaluation < 10 => covered <= topSpeed * 10
  BY <1>1, Added
<1>3. /\ E \in Nat \ {0} /\ C \in Nat /\ covered \in Nat /\ sinceEvaluation \in Nat
      /\ E = 500 \/ 2 * E <= C
      /\ UNCHANGED <<E, C>> /\ elapsed \in Nat /\ distance \in Nat
  BY <1>1, <1>2, HalfAChord, ChordIsLeast
  DEF CadenceInv, CadenceTypes, EvaluationMove, CoveredChord, TightestRadius, MinEvaluationMove
<1>4. CASE ShouldEvaluate(elapsed, distance)
  <2>1. gap' = distance /\ sinceEvaluation' = 0 /\ covered' = 0
    BY <1>4 DEF Fix
  <2>2. CadenceTypes' /\ Behind' /\ Steady'
    BY <1>1, <1>2, <1>3, <2>1
    DEF CadenceInv, CadenceTypes, Declared, Behind, Steady, MinEvaluation
  <2>3. ASSUME 2 * topSpeed * MinEvaluation <= C,
               topSpeed * MinEvaluation + MinEvaluationMove <= C
        PROVE  distance <= C
    <3>1. /\ 2 * (topSpeed * 10) <= C /\ topSpeed * 10 + 500 <= C /\ topSpeed * 10 \in Nat
          /\ distance <= covered + topSpeed * 10
      BY <1>2, <1>3, <2>3 DEF MinEvaluation, MinEvaluationMove
    <3>2. CASE sinceEvaluation < 10
      BY <1>2, <1>3, <3>1, <3>2
    <3>3. CASE sinceEvaluation >= 10
      <4>1. covered < E
        BY <3>3 DEF CadenceInv, Behind, MinEvaluation
      <4>2. QED
        BY <1>3, <3>1, <4>1
    <3>4. QED
      BY <1>3, <3>2, <3>3
  <2>4. ASSUME IsCoveredSpeed(topSpeed), steady', ~LostToFloor(topSpeed)
        PROVE  distance <= C
    <3>1. topSpeed * 10 <= C
      BY <1>3, <2>4 DEF IsCoveredSpeed, MinEvaluation
    <3>2. distance <= covered + topSpeed * 10 /\ topSpeed * 10 \in Nat
      BY <1>2, <1>3
    <3>3. CASE sinceEvaluation = 0
      BY <1>2, <1>3, <3>1, <3>2, <3>3
    <3>4. CASE sinceEvaluation # 0
      <4>1. topSpeed * 10 < E /\ covered < E
        BY <1>1, <2>4, <3>4 DEF CadenceInv, Steady, MinEvaluation
      <4>2. topSpeed * 10 < 500 => topSpeed * 10 + 500 <= C
        BY <1>2, <1>3, <2>4, <3>2 DEF LostToFloor, MinEvaluation, MinEvaluationMove
      <4>3. QED
        BY <1>3, <3>2, <4>1, <4>2
    <3>5. QED
      BY <3>3, <3>4
  <2>5. GapCovered'
    BY <1>1, <1>3, <2>1, <2>3, <2>4 DEF GapCovered, IsCoveredSpeed, LostToFloor
  <2>6. QED
    BY <2>2, <2>5 DEF CadenceInv
<1>5. CASE ~ShouldEvaluate(elapsed, distance)
  <2>1. gap' = 0 /\ sinceEvaluation' = elapsed /\ covered' = distance
    BY <1>5 DEF Fix
  <2>2. elapsed >= 10 => distance < E
    BY <1>3, <1>5 DEF ShouldEvaluate, MinEvaluation
  <2>3. CadenceTypes'
    BY <1>1, <1>3, <2>1 DEF CadenceInv, CadenceTypes, Declared
  <2>4. Behind'
    BY <1>1, <1>2, <1>3, <2>1, <2>2 DEF Behind, MinEvaluation
  <2>5. Steady'
    <3>1. ASSUME steady' PROVE topSpeed * 10 < E /\ distance < E
      <4>1. interval = 10 /\ speed = topSpeed
        BY <1>1, <3>1, Zenon
      <4>2. interval = 10 /\ speed = topSpeed /\ distance < E
        BY <1>3, <2>2, <4>1
      <4>3. topSpeed * 10 <= distance
        BY <1>2, <1>3, <4>2
      <4>4. QED
        BY <1>2, <1>3, <4>2, <4>3
    <3>2. QED
      BY <1>1, <1>3, <2>1, <3>1 DEF Steady, MinEvaluation
  <2>6. GapCovered'
    BY <1>3, <2>1 DEF GapCovered
  <2>7. QED
    BY <2>3, <2>4, <2>5, <2>6 DEF CadenceInv
<1>6. QED
  BY <1>4, <1>5

\* Whatever the enabled outputs declare: no two evaluations straddle a zone up to the
\* covered speed at a fix every second, the speeds lost to the floor of the sampling
\* distance excepted, nor up to half of it and what the floor leaves of the chord
\* however the fixes come within a second; and the boxes hold the zones until a new
\* list is forced (scan-cadence.ts: deriveScanCadence).
THEOREM ZonesStayCovered == CadenceSpec => []CadenceCovers
<1>1. ASSUME CadenceInit PROVE CadenceInv
  <2>1. Declared /\ topSpeed \in Nat
    BY <1>1, CadenceAssumption DEF CadenceInit, Declared
  <2>2. CoveredChord \in Nat
    BY <2>1, ChordIsLeast
  <2>3. QED
    BY <1>1, <2>1, <2>2
    DEF CadenceInit, CadenceInv, CadenceTypes, Behind, Steady, GapCovered, MinEvaluation
<1>2. ASSUME CadenceInv, [CadenceNext]_cadenceVars PROVE CadenceInv'
  <2>1. CASE UNCHANGED cadenceVars
    <3>1. UNCHANGED <<radii, topSpeed, sinceEvaluation, covered, gap, steady>>
      BY <2>1 DEF cadenceVars
    <3>2. UNCHANGED <<EvaluationMove, CoveredChord, IsCoveredSpeed(topSpeed),
                      LostToFloor(topSpeed)>>
      BY <3>1 DEF EvaluationMove, CoveredChord, TightestRadius, IsCoveredSpeed, LostToFloor
    <3>3. CadenceTypes' /\ Behind'
      BY <1>2, <3>1, <3>2 DEF CadenceInv, CadenceTypes, Declared, Behind
    <3>4. Steady' /\ GapCovered'
      BY <1>2, <3>1, <3>2 DEF CadenceInv, Steady, GapCovered
    <3>5. QED
      BY <3>3, <3>4 DEF CadenceInv
  <2>2. QED
    BY <1>2, <2>1, FixKeeps DEF CadenceNext
<1>3. ASSUME CadenceInv PROVE CadenceCovers
  <2>1. /\ Declared /\ gap \in Nat /\ CoveredChord \in Nat
        /\ \A r \in radii : Chord(r) \in Nat /\ CoveredChord <= Chord(r)
    BY <1>3, ChordIsLeast DEF CadenceInv, CadenceTypes
  <2>2. gap <= CoveredChord => NoZoneStraddled
    BY <2>1 DEF NoZoneStraddled
  <2>3. UnevenFixesCovered /\ SteadyFixesCovered
    BY <1>3, <2>2 DEF CadenceInv, GapCovered, UnevenFixesCovered, SteadyFixesCovered
  <2>4. QED
    BY <2>1, <2>3, BoxesHold DEF CadenceCovers
<1>4. QED
  BY <1>1, <1>2, <1>3, PTL DEF CadenceSpec
============================================================================
