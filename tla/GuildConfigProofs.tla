--------------------------- MODULE GuildConfigProofs ---------------------------
(***************************************************************************)
(* GuildConfig for any number of commands, trackers and settings: what a   *)
(* command has in hand is the stored value with its own change in it, as   *)
(* long as no two commands have met; what is on its way into the cache is  *)
(* the stored value, as long as nothing has crossed.                       *)
(***************************************************************************)
EXTENDS GuildConfig, TLAPS

CommandStates ==
  [pc : {"idle"}] \cup [pc : {"reading"}, request : Requests]
    \cup [pc : {"writing", "caching"}, request : Requests, config : Configs]
TrackerStates == [pc : {"idle", "fetching"}] \cup [pc : {"filling"}, config : Configs]

Types ==
  /\ stored \in Configs /\ said \in Configs
  /\ cached \in [there : BOOLEAN, config : Configs, age : Nat]
  /\ command \in [Commands -> CommandStates]
  /\ tracker \in [Trackers -> TrackerStates]
  /\ met \in BOOLEAN /\ crossed \in BOOLEAN

\* Without a meeting there is one writer, and it changes its own setting only.
InHand ==
  ~met => /\ stored = said
          /\ \A c \in Commands : Writing(c) => command[c].config = Changed(stored, command[c].request)
          /\ \A c, d \in Commands : Writing(c) /\ Writing(d) => c = d

\* Without a crossing the cache is given what is stored, or has it already.
OnItsWay ==
  ~crossed => /\ \A t \in Trackers : tracker[t].pc = "filling" => tracker[t].config = stored
              /\ \A c \in Commands : Caching(c) => command[c].config = stored
              /\ Fresh /\ (\A c \in Commands : ~Caching(c)) => cached.config = stored

IInv == Types /\ InHand /\ OnItsWay

LEMMA ChangedType ==
  ASSUME NEW config \in Configs, NEW r \in Requests
  PROVE  Changed(config, r) \in Configs
<1>1. r.setting \in Settings
  BY SettingsAssumption DEF Requests, Request, Settings
<1>2. ValueOf(r) \in Values \cup {Unset}
  BY DEF Requests, Request, ValueOf
<1> QED BY <1>1, <1>2 DEF Changed, Configs

LEMMA InitIInv == Init => IInv
<1> SUFFICES ASSUME Init PROVE IInv
  OBVIOUS
<1>1. Types
  BY DefaultAssumption DEF Init, Types, NoEntry, CommandStates, TrackerStates, Idle, Asleep
<1>2. InHand
  BY DEF Init, InHand, Writing, Idle
<1>3. OnItsWay
  BY DEF Init, OnItsWay, Caching, Idle, Asleep, Fresh, NoEntry
<1> QED BY <1>1, <1>2, <1>3 DEF IInv

LEMMA BeginKeeps ==
  ASSUME IInv, NEW c \in Commands, NEW r \in Requests, Begin(c, r)
  PROVE  IInv'
<1>1. [pc |-> "reading", request |-> r] \in CommandStates
  BY DEF CommandStates
<1>2. Types'
  BY <1>1 DEF IInv, Types, Begin, history
<1>3. InHand'
  BY DEF IInv, Types, InHand, Begin, history, Writing
<1>4. OnItsWay'
  BY DEF IInv, Types, OnItsWay, Begin, history, Caching, Fresh
<1> QED BY <1>2, <1>3, <1>4 DEF IInv

LEMMA ReadKeeps ==
  ASSUME IInv, NEW c \in Commands, Read(c)
  PROVE  IInv'
<1> DEFINE r == command[c].request
           next == [pc |-> "writing", request |-> r, config |-> Changed(stored, r)]
<1>0. r \in Requests
  BY DEF IInv, Types, CommandStates, Read
<1>1. Changed(stored, r) \in Configs
  BY <1>0, ChangedType DEF IInv, Types
<1>2. next \in CommandStates /\ Idle \in CommandStates
  BY <1>0, <1>1 DEF CommandStates, Idle
<1>3. command' = [command EXCEPT ![c] = IF Refused(r, stored) THEN Idle ELSE next]
  BY DEF Read, Loaded
<1>4. met' = (met \/ (~Refused(r, stored) /\ \E other \in Commands \ {c} : Writing(other)))
  BY DEF Read, Loaded
<1>5. UNCHANGED <<stored, cached, tracker, said, crossed>>
  BY DEF Read
<1>6. command[c].pc = "reading" /\ command \in [Commands -> CommandStates]
  BY DEF Read, IInv, Types
<1>7. command'[c] = (IF Refused(r, stored) THEN Idle ELSE next)
      /\ \A d \in Commands \ {c} : command'[d] = command[d]
  BY <1>3, <1>6
<1> HIDE DEF r
<1>8. command' \in [Commands -> CommandStates]
  BY <1>2, <1>3, <1>6
<1>9. Types'
  BY <1>4, <1>5, <1>8 DEF IInv, Types
<1>10. InHand'
  <2> SUFFICES ASSUME ~met' PROVE InHand'
    BY DEF InHand
  <2>1. ~met /\ (~Refused(r, stored) => \A d \in Commands \ {c} : ~Writing(d))
    BY <1>4
  <2>2. \A d \in Commands \ {c} : Writing(d)' <=> Writing(d)
    BY <1>7 DEF Writing
  <2>3. Writing(c)' => ~Refused(r, stored) /\ command'[c] = next
    BY <1>7 DEF Writing, Idle
  <2>4. \A d \in Commands : Writing(d)' => command'[d].config = Changed(stored, command'[d].request)
    BY <2>1, <2>2, <2>3, <1>7 DEF IInv, InHand
  <2>5. \A d, e \in Commands : Writing(d)' /\ Writing(e)' => d = e
    BY <2>1, <2>2, <2>3 DEF IInv, InHand
  <2> QED BY <2>1, <2>4, <2>5, <1>5 DEF InHand, IInv, Changed, ValueOf
<1>11. OnItsWay'
  BY <1>5, <1>6, <1>7 DEF IInv, OnItsWay, Caching, Fresh, Idle
<1> QED BY <1>9, <1>10, <1>11 DEF IInv

LEMMA WriteKeeps ==
  ASSUME IInv, NEW c \in Commands, Write(c)
  PROVE  IInv'
<1> DEFINE cmd == command[c]
<1>1. /\ cmd.pc = "writing" /\ cmd.request \in Requests /\ cmd.config \in Configs
      /\ cmd \in [pc : {"writing", "caching"}, request : Requests, config : Configs]
  BY DEF IInv, Types, CommandStates, Write, Writing
<1>2. /\ stored' = cmd.config
      /\ said' = Changed(said, cmd.request)
      /\ UNCHANGED <<cached, tracker, met>>
  BY DEF Write, Changed
<1>3. /\ command'[c] = [cmd EXCEPT !.pc = "caching"]
      /\ \A d \in Commands \ {c} : command'[d] = command[d]
      /\ command' \in [Commands -> CommandStates]
  <2>1. [cmd EXCEPT !.pc = "caching"] \in CommandStates
    BY <1>1 DEF CommandStates
  <2>2. command' = [command EXCEPT ![c] = [cmd EXCEPT !.pc = "caching"]]
    BY DEF Write
  <2> QED BY <2>1, <2>2 DEF IInv, Types
<1>4. command'[c].pc = "caching" /\ command'[c].config = cmd.config
  BY <1>1, <1>3
<1>5. Changed(said, cmd.request) \in Configs
  BY <1>1, ChangedType DEF IInv, Types
<1>6. Types'
  <2>1. crossed' \in BOOLEAN
    BY DEF Write, IInv, Types
  <2> QED BY <1>1, <1>2, <1>3, <1>5, <2>1 DEF IInv, Types
<1>7. InHand'
  <2> SUFFICES ASSUME ~met PROVE InHand'
    BY <1>2 DEF InHand
  <2>1. stored = said /\ cmd.config = Changed(stored, cmd.request)
    BY <1>1 DEF IInv, InHand, Writing
  <2>2. \A d \in Commands : ~Writing(d)'
    BY <1>1, <1>3, <1>4 DEF IInv, InHand, Writing
  <2> QED BY <1>2, <2>1, <2>2 DEF InHand
<1>8. OnItsWay'
  <2> SUFFICES ASSUME ~crossed' PROVE OnItsWay'
    BY DEF OnItsWay
  <2>1. (\A t \in Trackers : tracker[t].pc # "filling") /\ (\A d \in Commands : ~Caching(d))
    BY DEF Write
  <2>2. \A d \in Commands : Caching(d)' => d = c
    BY <1>3, <2>1 DEF Caching
  <2>3. Caching(c)'
    BY <1>4 DEF Caching
  <2> QED BY <1>2, <1>4, <2>1, <2>2, <2>3 DEF OnItsWay
<1> QED BY <1>6, <1>7, <1>8 DEF IInv

LEMMA CacheKeeps ==
  ASSUME IInv, NEW c \in Commands, Cache(c)
  PROVE  IInv'
<1>1. command[c].config \in Configs
  BY DEF IInv, Types, CommandStates, Cache, Caching
<1>2. /\ cached' = [there |-> TRUE, config |-> command[c].config, age |-> 0]
      /\ command' = [command EXCEPT ![c] = Idle]
      /\ UNCHANGED <<stored, tracker, said, met, crossed>>
  BY DEF Cache, Kept, history
<1>3. Idle \in CommandStates
  BY DEF Idle, CommandStates
<1>4. command'[c] = Idle /\ \A d \in Commands \ {c} : command'[d] = command[d]
  BY <1>2 DEF IInv, Types
<1>5. Types'
  BY <1>1, <1>2, <1>3 DEF IInv, Types
<1>6. InHand'
  BY <1>2, <1>4 DEF IInv, InHand, Writing, Idle
<1>7. ~crossed => command[c].config = stored
  BY DEF IInv, OnItsWay, Cache
<1>8. OnItsWay'
  BY <1>2, <1>4, <1>7 DEF IInv, OnItsWay, Caching, Idle, Fresh
<1> QED BY <1>5, <1>6, <1>8 DEF IInv

LEMMA TrackerKeeps ==
  ASSUME IInv, NEW t \in Trackers, LookUp(t) \/ Fetch(t) \/ Fill(t)
  PROVE  IInv'
<1>1. CASE LookUp(t)
  <2>1. [pc |-> "fetching"] \in TrackerStates
    BY DEF TrackerStates
  <2>2. Types'
    BY <1>1, <2>1 DEF IInv, Types, LookUp, history
  <2>3. InHand'
    BY <1>1 DEF IInv, InHand, LookUp, history, Writing
  <2>4. OnItsWay'
    BY <1>1 DEF IInv, Types, OnItsWay, LookUp, history, Caching, Fresh
  <2> QED BY <2>2, <2>3, <2>4 DEF IInv
<1>2. CASE Fetch(t)
  <2>1. PICK config \in {stored, Default} :
          /\ tracker' = [tracker EXCEPT ![t] = [pc |-> "filling", config |-> config]]
          /\ (config = stored /\ crossed' = crossed) \/ crossed' = TRUE
    BY <1>2 DEF Fetch, Fetched
  <2>2. UNCHANGED <<stored, cached, command, said, met>>
    BY <1>2 DEF Fetch
  <2>3. [pc |-> "filling", config |-> config] \in TrackerStates
    BY DefaultAssumption DEF TrackerStates, IInv, Types
  <2>4. Types'
    BY <2>1, <2>2, <2>3 DEF IInv, Types
  <2>5. InHand'
    BY <2>2 DEF IInv, InHand, Writing
  <2>6. OnItsWay'
    BY <2>1, <2>2 DEF IInv, Types, OnItsWay, Caching, Fresh
  <2> QED BY <2>4, <2>5, <2>6 DEF IInv
<1>3. CASE Fill(t)
  <2>1. tracker[t].config \in Configs
    BY <1>3 DEF IInv, Types, TrackerStates, Fill
  <2>2. /\ cached' = [there |-> TRUE, config |-> tracker[t].config, age |-> 0]
        /\ tracker' = [tracker EXCEPT ![t] = Asleep]
        /\ UNCHANGED <<stored, command, said, met, crossed>>
    BY <1>3 DEF Fill, history
  <2>3. Asleep \in TrackerStates
    BY DEF Asleep, TrackerStates
  <2>4. Types'
    BY <2>1, <2>2, <2>3 DEF IInv, Types
  <2>5. InHand'
    BY <2>2 DEF IInv, InHand, Writing
  <2>6. ~crossed => tracker[t].config = stored
    BY <1>3 DEF IInv, OnItsWay, Fill
  <2>7. OnItsWay'
    BY <2>2, <2>6 DEF IInv, Types, OnItsWay, Caching, Fresh, Asleep
  <2> QED BY <2>4, <2>5, <2>7 DEF IInv
<1> QED BY <1>1, <1>2, <1>3

LEMMA OthersKeep ==
  ASSUME IInv, Tick \/ Restart \/ UNCHANGED vars \/ \E c \in Commands : FailCommand(c)
  PROVE  IInv'
<1>1. CASE Tick
  <2>1. /\ cached' = [cached EXCEPT !.age = @ + 1]
        /\ UNCHANGED <<stored, command, tracker, said, met, crossed>>
    BY <1>1 DEF Tick, history
  <2>2. cached'.there = cached.there /\ cached'.config = cached.config /\ cached'.age = cached.age + 1
    BY <2>1 DEF IInv, Types
  <2>3. Fresh' => Fresh
    BY <2>2, LifetimeAssumption DEF Fresh, IInv, Types
  <2>4. Types'
    BY <2>1 DEF IInv, Types
  <2>5. InHand'
    BY <2>1 DEF IInv, InHand, Writing
  <2>6. OnItsWay'
    BY <2>1, <2>2, <2>3 DEF IInv, OnItsWay, Caching
  <2> QED BY <2>4, <2>5, <2>6 DEF IInv
<1>2. CASE Restart
  <2>1. Types'
    BY <1>2, DefaultAssumption
    DEF Restart, IInv, Types, NoEntry, CommandStates, TrackerStates, Idle, Asleep, history
  <2>2. InHand'
    BY <1>2 DEF Restart, IInv, InHand, Writing, Idle, history
  <2>3. OnItsWay'
    BY <1>2 DEF Restart, IInv, OnItsWay, Caching, Fresh, NoEntry, Idle, Asleep, history
  <2> QED BY <2>1, <2>2, <2>3 DEF IInv
<1>3. CASE UNCHANGED vars
  BY <1>3 DEF vars, history, IInv, Types, InHand, OnItsWay, Writing, Caching, Fresh
<1>4. ASSUME NEW c \in Commands, FailCommand(c)
      PROVE  IInv'
  <2>1. /\ command' = [command EXCEPT ![c] = Idle]
        /\ command[c].pc \in {"reading", "writing"}
        /\ UNCHANGED <<stored, cached, tracker, said, met, crossed>>
    BY <1>4 DEF FailCommand, history
  <2>2. Idle \in CommandStates
    BY DEF Idle, CommandStates
  <2>3. Types'
    BY <2>1, <2>2 DEF IInv, Types
  <2>4. InHand'
    BY <2>1 DEF IInv, Types, InHand, Writing, Idle
  <2>5. OnItsWay'
    BY <2>1 DEF IInv, Types, OnItsWay, Caching, Fresh, Idle
  <2> QED BY <2>3, <2>4, <2>5 DEF IInv
<1> QED BY <1>1, <1>2, <1>3, <1>4

THEOREM InductiveInvariant == Spec => []IInv
<1>1. IInv /\ [Next]_vars => IInv'
  BY BeginKeeps, ReadKeeps, WriteKeeps, CacheKeeps, TrackerKeeps, OthersKeep
  DEF Next, CommandStep, TrackerStep
<1> QED BY InitIInv, <1>1, PTL DEF Spec

\* For any number of commands, settings and tracker tasks, no change is undone
\* unless two commands were between their read and their write at once.
THEOREM NoChangeLost == Spec => []NoLostChange
<1>1. IInv => NoLostChange
  BY DEF IInv, InHand, NoLostChange
<1> QED BY InductiveInvariant, <1>1, PTL

\* The tracker's copy is the stored configuration once the commands are done,
\* unless a change crossed a fetch or an insert or a fetch failed.
THEOREM CacheAlwaysFollows == Spec => []CacheFollows
<1>1. IInv => CacheFollows
  BY DEF IInv, OnItsWay, CacheFollows
<1> QED BY InductiveInvariant, <1>1, PTL
=============================================================================
