------------------------------ MODULE RuleStore ------------------------------
(***************************************************************************)
(* The client-side rule store of the device: the rules in force            *)
(* (g_ruleInfosList), the JSON text they came from (g_ruleInfosListJSON)   *)
(* and the file that outlives a restart.  Two threads work on it:          *)
(*                                                                         *)
(*   "mqtt"  the MQTT library's callback thread.  It delivers rule bodies  *)
(*           (RuleMgr_Parse) and desired rule versions                     *)
(*           (RuleTrans_DeviceRuleUpdate), one message after the other;    *)
(*   "app"   the application's thread, calling                             *)
(*           IOTA_EnableDeviceRuleStorage.                                 *)
(*                                                                         *)
(* g_ruleMutex is the variable lock.  A loop over the rules of a payload   *)
(* is one step per rule.  Writing the file is two steps, fopen("wb"),      *)
(* which empties it, and fputs, because a restart may fall between them.   *)
(***************************************************************************)
EXTENDS Integers, FiniteSets, SequencesExt

CONSTANTS
  RuleIds,          \* rule identifiers
  Versions,         \* values of ruleVersionInShadow
  NoRule,           \* see RuleMap
  Payloads,         \* rule bodies the platform may deliver, sequences of Entry
  Shadows,          \* desired versions it may deliver, see Shadow
  InitialFiles,     \* what the storage file may be before the first boot
  MirrorBound,      \* bound: entries kept in g_ruleInfosListJSON
  StorageFirst,     \* TRUE: storage is enabled and loaded before messages arrive
  IoFaults,         \* TRUE: opening the file may fail
  RestartDuringSave \* TRUE: a restart may fall between fopen and fputs

\* A rule of a payload.  form says how far parsing gets: "head" its ruleId or
\* ruleVersionInShadow is unreadable, "body" ParseSingleRule fails, "ok".
Entry == [id : RuleIds, ver : Versions, form : {"ok", "body", "head"}]

\* version -1 in the desired properties asks for the rule to be deleted.
Deletion == -1
Shadow == UNION {[S -> Versions \cup {Deletion}] : S \in SUBSET RuleIds}

\* "torn": the file exists but cJSON_Parse makes nothing of it.
File == [state : {"absent", "torn", "good"}, rules : Seq(Entry)]

ASSUME StoreAssumption ==
  /\ Versions \subseteq Int
  /\ NoRule \notin Int
  /\ Payloads \subseteq Seq(Entry)
  /\ Shadows \subseteq Shadow
  /\ InitialFiles \subseteq File
  /\ \A f \in InitialFiles : f.state # "good" => f.rules = <<>>
  /\ MirrorBound \in Nat
  /\ {StorageFirst, IoFaults, RestartDuringSave} \subseteq BOOLEAN

Threads == {"mqtt", "app"}
NoThread == "none"

VARIABLES
  memory,  \* g_ruleInfosList
  mirror,  \* g_ruleInfosListJSON
  path,    \* g_ruleFilePath is set
  file,    \* the file it names
  lock,    \* owner of g_ruleMutex
  pc,      \* where each thread is
  todo,    \* rules of its payload a thread has not looked at yet
  dest,    \* the mqtt thread's copy of g_ruleFilePath is not NULL
  del,     \* delList
  add,     \* addList
  before   \* history: memory when the mqtt thread took the lock it holds

vars == <<memory, mirror, path, file, lock, pc, todo, dest, del, add, before>>

PCs == {"idle", "wantParse", "parsing", "saving", "writing", "reply",
        "wantDelete", "deleting", "config", "load"}

TypeOK ==
  /\ memory \in Seq(Entry)
  /\ mirror \in Seq(Entry)
  /\ path \in BOOLEAN
  /\ file \in File
  /\ lock \in Threads \cup {NoThread}
  /\ pc \in [Threads -> PCs]
  /\ todo \in [Threads -> Seq(Entry)]
  /\ dest \in BOOLEAN
  /\ del \in SUBSET RuleIds
  /\ add \in SUBSET RuleIds
  /\ before \in Seq(Entry)

Init ==
  /\ file \in InitialFiles
  /\ memory = <<>>
  /\ mirror = <<>>
  /\ path = FALSE
  /\ lock = NoThread
  /\ pc = [t \in Threads |-> "idle"]
  /\ todo = [t \in Threads |-> <<>>]
  /\ dest = FALSE
  /\ del = {}
  /\ add = {}
  /\ before = <<>>

-----------------------------------------------------------------------------
(* Operators on the rule lists.                                            *)

Holds(s, r) == \E i \in DOMAIN s : s[i].id = r

\* The list without its first rule named r (RuleJSONObjDelById, and the
\* search-and-remove on g_ruleInfosList).
Without(s, r) ==
  IF Holds(s, r) THEN RemoveAt(s, Min({i \in DOMAIN s : s[i].id = r})) ELSE s

\* Bug: the version test is missing.
OutdatedNever(s, e) == FALSE

\* RuleListCheckExistence followed by the version test.
Outdated(s, e) == \E i \in DOMAIN s : s[i].id = e.id /\ e.ver <= s[i].ver

\* Bug: the older version stays in the list.
StoredKeepsOld(s, e) == IF e.form = "ok" THEN Append(s, e) ELSE s

\* g_ruleInfosList after the rule e is stored.
StoredInMemory(s, e) ==
  IF e.form = "ok" THEN Append(Without(s, e.id), e) ELSE Without(s, e.id)

\* Bug: a replaced rule is removed from the JSON text and not added again.
MirrorForgetsReplaced(m, s, e) ==
  IF Holds(s, e.id) THEN Without(m, e.id) ELSE Append(m, e)

\* g_ruleInfosListJSON after it: the hook removes only what memory held, and
\* adds the rule before ParseSingleRule has looked at it.
StoredInMirror(m, s, e) ==
  Append(IF Holds(s, e.id) THEN Without(m, e.id) ELSE m, e)

-----------------------------------------------------------------------------
(* ParseDeviceRuleWithHook, under g_ruleMutex, for either thread.          *)

LockToParse(t) ==
  /\ pc[t] = "wantParse"
  /\ lock = NoThread
  /\ lock' = t
  /\ pc' = [pc EXCEPT ![t] = "parsing"]
  /\ before' = IF t = "mqtt" THEN memory ELSE before
  /\ UNCHANGED <<memory, mirror, path, file, todo, dest, del, add>>

\* ruleId or version unreadable: the rest of the payload is dropped.
StopParse(t) ==
  /\ pc[t] = "parsing"
  /\ todo[t] # <<>>
  /\ Head(todo[t]).form = "head"
  /\ todo' = [todo EXCEPT ![t] = <<>>]
  /\ UNCHANGED <<memory, mirror, path, file, lock, pc, dest, del, add, before>>

\* The rule is held in this or a newer version.
SkipRule(t) ==
  /\ pc[t] = "parsing"
  /\ todo[t] # <<>>
  /\ Head(todo[t]).form # "head"
  /\ Outdated(memory, Head(todo[t]))
  /\ todo' = [todo EXCEPT ![t] = Tail(@)]
  /\ UNCHANGED <<memory, mirror, path, file, lock, pc, dest, del, add, before>>

\* The older version, if any, goes; the new one is recorded in the JSON text
\* and, if it can be parsed, in memory.  If not, the payload's rest is dropped.
StoreRule(t) ==
  /\ pc[t] = "parsing"
  /\ todo[t] # <<>>
  /\ Head(todo[t]).form # "head"
  /\ ~ Outdated(memory, Head(todo[t]))
  /\ memory' = StoredInMemory(memory, Head(todo[t]))
  /\ mirror' = StoredInMirror(mirror, memory, Head(todo[t]))
  /\ todo' = [todo EXCEPT ![t] = IF Head(@).form = "ok" THEN Tail(@) ELSE <<>>]
  /\ UNCHANGED <<path, file, lock, pc, dest, del, add, before>>

-----------------------------------------------------------------------------
(* RuleJSONObjSaveToFile and the unlock that follows it, mqtt thread.      *)

\* Where RuleTrans_DeviceRuleUpdateByJSON goes on once the lock is released;
\* RuleMgr_Parse always finds add empty.
AfterSave == IF add # {} THEN "config" ELSE "idle"

ParsedAll ==
  /\ pc["mqtt"] = "parsing"
  /\ todo["mqtt"] = <<>>
  /\ pc' = [pc EXCEPT !["mqtt"] = "saving"]
  /\ UNCHANGED <<memory, mirror, path, file, lock, todo, dest, del, add, before>>

\* Bug: an early return of the save skips the unlock.
SkipSaveKeepsLock ==
  /\ pc["mqtt"] = "saving"
  /\ ~ dest \/ file.state = "absent" \/ IoFaults
  /\ pc' = [pc EXCEPT !["mqtt"] = AfterSave]
  /\ before' = <<>>
  /\ UNCHANGED <<memory, mirror, path, file, lock, todo, dest, del, add>>

\* No path, realpath() fails because the file does not exist, or fopen fails.
SkipSave ==
  /\ pc["mqtt"] = "saving"
  /\ ~ dest \/ file.state = "absent" \/ IoFaults
  /\ lock' = NoThread
  /\ pc' = [pc EXCEPT !["mqtt"] = AfterSave]
  /\ before' = <<>>
  /\ UNCHANGED <<memory, mirror, path, file, todo, dest, del, add>>

OpenFile ==
  /\ pc["mqtt"] = "saving"
  /\ dest /\ file.state # "absent"
  /\ file' = [state |-> "torn", rules |-> <<>>]
  /\ pc' = [pc EXCEPT !["mqtt"] = "writing"]
  /\ UNCHANGED <<memory, mirror, path, lock, todo, dest, del, add, before>>

\* Bug: the unlock after a successful save is missing.
WriteFileKeepsLock ==
  /\ pc["mqtt"] = "writing"
  /\ file' = [state |-> "good", rules |-> mirror]
  /\ pc' = [pc EXCEPT !["mqtt"] = AfterSave]
  /\ before' = <<>>
  /\ UNCHANGED <<memory, mirror, path, lock, todo, dest, del, add>>

WriteFile ==
  /\ pc["mqtt"] = "writing"
  /\ file' = [state |-> "good", rules |-> mirror]
  /\ lock' = NoThread
  /\ pc' = [pc EXCEPT !["mqtt"] = AfterSave]
  /\ before' = <<>>
  /\ UNCHANGED <<memory, mirror, path, todo, dest, del, add>>

-----------------------------------------------------------------------------
(* The mqtt thread's messages.                                             *)

\* With StorageFirst, the application connects once storage is loaded.
Listening == StorageFirst => path /\ pc["app"] = "idle"

\* RuleMgr_Parse: the path is copied before the lock is asked for.
RuleMgr_Parse(p) ==
  /\ pc["mqtt"] = "idle"
  /\ Listening
  /\ Len(mirror) + Len(p) <= MirrorBound
  /\ todo' = [todo EXCEPT !["mqtt"] = p]
  /\ dest' = path
  /\ pc' = [pc EXCEPT !["mqtt"] = "wantParse"]
  /\ UNCHANGED <<memory, mirror, path, file, lock, del, add, before>>

\* GetRuleInfoList in its own critical section.  A payload with an unreadable
\* version is dropped as a whole, which changes nothing.
RuleTrans_DeviceRuleUpdate(s) ==
  /\ pc["mqtt"] = "idle"
  /\ Listening
  /\ lock = NoThread
  /\ del' = {r \in DOMAIN s : s[r] = Deletion}
  /\ add' = {r \in DOMAIN s : /\ s[r] # Deletion
                              /\ \A i \in DOMAIN memory :
                                   memory[i].id = r => s[r] > memory[i].ver}
  /\ pc' = [pc EXCEPT !["mqtt"] = "reply"]
  /\ UNCHANGED <<memory, mirror, path, file, lock, todo, dest, before>>

\* DeviceRulePropertiesReply, then RuleMgr_DelRule up to its lock.
PropertiesReply ==
  /\ pc["mqtt"] = "reply"
  /\ pc' = [pc EXCEPT !["mqtt"] = IF del # {} THEN "wantDelete" ELSE AfterSave]
  /\ dest' = IF del # {} THEN path ELSE dest
  /\ UNCHANGED <<memory, mirror, path, file, lock, todo, del, add, before>>

LockToDelete ==
  /\ pc["mqtt"] = "wantDelete"
  /\ lock = NoThread
  /\ lock' = "mqtt"
  /\ pc' = [pc EXCEPT !["mqtt"] = "deleting"]
  /\ before' = memory
  /\ UNCHANGED <<memory, mirror, path, file, todo, dest, del, add>>

DeleteRule(r) ==
  /\ pc["mqtt"] = "deleting"
  /\ r \in del
  /\ memory' = Without(memory, r)
  /\ mirror' = Without(mirror, r)
  /\ del' = del \ {r}
  /\ UNCHANGED <<path, file, lock, pc, todo, dest, add, before>>

\* Bug: RuleMgr_DelRule does not save.
DeletedAllUnsaved ==
  /\ pc["mqtt"] = "deleting"
  /\ del = {}
  /\ lock' = NoThread
  /\ pc' = [pc EXCEPT !["mqtt"] = AfterSave]
  /\ before' = <<>>
  /\ UNCHANGED <<memory, mirror, path, file, todo, dest, del, add>>

DeletedAll ==
  /\ pc["mqtt"] = "deleting"
  /\ del = {}
  /\ pc' = [pc EXCEPT !["mqtt"] = "saving"]
  /\ UNCHANGED <<memory, mirror, path, file, lock, todo, dest, del, add, before>>

\* DeviceRuleConfigReply asks the platform for the bodies of addList.
ConfigReply ==
  /\ pc["mqtt"] = "config"
  /\ add' = {}
  /\ pc' = [pc EXCEPT !["mqtt"] = "idle"]
  /\ UNCHANGED <<memory, mirror, path, file, lock, todo, dest, del, before>>

-----------------------------------------------------------------------------
(* RuleMgr_EnableDeviceRuleStorage, app thread; called once, as the demos   *)
(* do, at any time after IOTA_Init.                                        *)

EnableStorage ==
  /\ pc["app"] = "idle"
  /\ ~ path
  /\ Len(mirror) + Len(file.rules) <= MirrorBound
  /\ path' = TRUE
  /\ pc' = [pc EXCEPT !["app"] = "load"]
  /\ UNCHANGED <<memory, mirror, file, lock, todo, dest, del, add, before>>

\* realpath or fopen fails.
LoadNothing ==
  /\ pc["app"] = "load"
  /\ file.state = "absent" \/ IoFaults
  /\ pc' = [pc EXCEPT !["app"] = "idle"]
  /\ UNCHANGED <<memory, mirror, path, file, lock, todo, dest, del, add, before>>

\* The file is read without the lock.
LoadFile ==
  /\ pc["app"] = "load"
  /\ file.state # "absent"
  /\ todo' = [todo EXCEPT !["app"] = file.rules]
  /\ pc' = [pc EXCEPT !["app"] = "wantParse"]
  /\ UNCHANGED <<memory, mirror, path, file, lock, dest, del, add, before>>

\* The loaded rules are not saved again.
LoadedAll ==
  /\ pc["app"] = "parsing"
  /\ todo["app"] = <<>>
  /\ lock' = NoThread
  /\ pc' = [pc EXCEPT !["app"] = "idle"]
  /\ UNCHANGED <<memory, mirror, path, file, todo, dest, del, add, before>>

-----------------------------------------------------------------------------
\* The device loses power; after the reboot RuleMgr_Init starts from nothing.
Restart ==
  /\ RestartDuringSave \/ pc["mqtt"] # "writing"
  /\ memory' = <<>>
  /\ mirror' = <<>>
  /\ path' = FALSE
  /\ lock' = NoThread
  /\ pc' = [t \in Threads |-> "idle"]
  /\ todo' = [t \in Threads |-> <<>>]
  /\ dest' = FALSE
  /\ del' = {}
  /\ add' = {}
  /\ before' = <<>>
  /\ UNCHANGED file

MqttStep ==
  \/ LockToParse("mqtt") \/ StopParse("mqtt") \/ SkipRule("mqtt") \/ StoreRule("mqtt")
  \/ ParsedAll \/ SkipSave \/ OpenFile \/ WriteFile
  \/ PropertiesReply \/ LockToDelete \/ (\E r \in RuleIds : DeleteRule(r))
  \/ DeletedAll \/ ConfigReply

AppStep ==
  \/ LockToParse("app") \/ StopParse("app") \/ SkipRule("app") \/ StoreRule("app")
  \/ LoadNothing \/ LoadFile \/ LoadedAll

Next ==
  \/ \E p \in Payloads : RuleMgr_Parse(p)
  \/ \E s \in Shadows : RuleTrans_DeviceRuleUpdate(s)
  \/ EnableStorage
  \/ MqttStep
  \/ AppStep
  \/ Restart

\* A thread in the middle of an operation is scheduled again.
Fairness == WF_vars(MqttStep) /\ WF_vars(AppStep)

Spec == Init /\ [][Next]_vars
FairSpec == Spec /\ Fairness

-----------------------------------------------------------------------------
(* Properties.                                                             *)

\* A thread inside a critical section of g_ruleMutex.
Critical(t) == pc[t] \in {"parsing", "saving", "writing", "deleting"}

\* g_ruleMutex is held exactly while a thread is in one of its critical
\* sections: every early return of RuleJSONObjSaveToFile and of the parser
\* still reaches the unlock, and the two threads exclude each other.
LockMatchesSections == \A t \in Threads : Critical(t) <=> lock = t

\* RuleListCheckExistence stops at its first match, so g_ruleInfosList must
\* never hold two rules of one name, whatever payloads, loads and deletions
\* interleave.
UniqueIds ==
  \A i, j \in DOMAIN memory : memory[i].id = memory[j].id => i = j

\* Every rule in force is in the JSON text that the next save writes, with the
\* version in force, also after bodies that fail to parse.
MemoryInMirror ==
  \A i \in DOMAIN memory : \E j \in DOMAIN mirror : mirror[j] = memory[i]

\* One pass of the loop of ParseDeviceRuleWithHook, and whether it goes on.
ParsedEntry(acc, e) ==
  IF ~ acc.go \/ e.form = "head" THEN [mem |-> acc.mem, go |-> FALSE]
  ELSE IF Outdated(acc.mem, e) THEN acc
  ELSE [mem |-> StoredInMemory(acc.mem, e), go |-> e.form = "ok"]

\* What RuleMgr_EnableDeviceRuleStorage makes of the first n rules of a file, on
\* an empty store, and of all of them.
Loading(rules) ==
  LET load[n \in 0..Len(rules)] ==
        IF n = 0 THEN [mem |-> <<>>, go |-> TRUE] ELSE ParsedEntry(load[n - 1], rules[n])
  IN  load

LoadedFrom(rules) == Loading(rules)[Len(rules)].mem

\* Once storage is enabled and loaded, a restart finds in the file the rules in
\* force; if it interrupts an update, those of before or of after the update.
RestartKeepsRules ==
  [][Restart /\ path /\ pc["app"] = "idle" =>
       \/ LoadedFrom(file.rules) = memory
       \/ Critical("mqtt") /\ LoadedFrom(file.rules) = before]_vars

\* Every message handler and every load ends: neither thread waits for
\* g_ruleMutex for ever.
OperationsEnd == \A t \in Threads : pc[t] # "idle" ~> pc[t] = "idle"

\* The version in force of each rule, as RuleMap sees it.
HeldVersions ==
  [r \in RuleIds |-> IF Holds(memory, r)
                     THEN memory[CHOOSE i \in DOMAIN memory : memory[i].id = r].ver
                     ELSE NoRule]

Map == INSTANCE RuleMap WITH held <- HeldVersions

\* The store implements the versioned map: a rule in force is only ever
\* replaced by a strictly newer version of itself, also when a load from the
\* file overlaps a payload from the platform.
ImplementsRuleMap == Map!Spec

=============================================================================
