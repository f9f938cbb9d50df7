----------------------------- MODULE Collection -----------------------------
(***************************************************************************)
(* What a round of the LogCollector does (src/src/services/               *)
(* LogCollector.cpp) and the PluginLoader it asks (src/src/plugins/        *)
(* PluginLoader.cpp).  An entry is who it comes from, its place in what    *)
(* that source answered, and its level.  Publishing a batch and storing    *)
(* one that is refused are in Delivery; the loop around the rounds, which  *)
(* ends before main unloads the plugins, is in Agent.                      *)
(***************************************************************************)
EXTENDS Naturals, Sequences, SequencesExt, FiniteSets

CONSTANTS
    Plugins,      \* the libraries in the plugins directory
    Levels,       \* levels that plugins give
    Priorities,   \* syslog priorities in the journal
    LogLevels,    \* log_levels_; empty: every level
    BatchMax,     \* LOG_BATCH_MAX
    MaxEntries,   \* bound: entries of one answer
    MaxRounds     \* bound

ASSUME CollectionAssumption ==
    /\ BatchMax \in Nat \ {0}
    /\ MaxEntries \in Nat /\ MaxRounds \in Nat
    /\ Priorities \subseteq Nat
    /\ IsFiniteSet(Plugins)

VARIABLES
    pc,        \* where the round is
    loader,    \* plugins.enabled: the collector asks a PluginLoader
    loaded,    \* plugins_
    order,     \* history: plugins_ as loadAll left it
    cleaned,   \* history: calls of cleanup() before dlclose()
    failed,    \* history: plugins whose collect() threw
    i,         \* index of collectAll
    toRemove,  \* to_remove of collectAll
    given,     \* history: the entries answered in this round
    entries,   \* entries of collectAndPublish
    start,     \* start of the next batch
    batches,   \* batches handed to publish_fn_
    rounds

vars == <<pc, loader, loaded, order, cleaned, failed, i, toRemove, given, entries, start, batches, rounds>>
pluginVars == <<loader, loaded, order, cleaned, failed>>

Journal == "journal"

(* levelAllowed() *)
LevelAllowed(level) == LogLevels = {} \/ level \in LogLevels
Allowed(entry) == LevelAllowed(entry.level)

(* Level of a syslog priority. *)
LevelOf(prio) ==
    CASE prio <= 2 -> "CRITICAL"
      [] prio = 3  -> "ERROR"
      [] prio = 4  -> "WARNING"
      [] prio \in 5..6 -> "INFO"
      [] OTHER -> "DEBUG"

(* The entries there can be. *)
Entries ==
    [source : Plugins \cup {Journal}, nr : Nat \ {0}, level : Levels \cup {LevelOf(p) : p \in Priorities}]

(* The loops of collectFromPlugins and collectFromSystem, which leave out  *)
(* an entry of another level.                                              *)
Kept(answer) ==
    LET kept[n \in 0..Len(answer)] ==
            IF n = 0 THEN <<>>
            ELSE IF Allowed(answer[n]) THEN Append(kept[n - 1], answer[n]) ELSE kept[n - 1]
    IN  kept[Len(answer)]

EntriesFrom(source, levels) == [n \in DOMAIN levels |-> [source |-> source, nr |-> n, level |-> levels[n]]]
Answers == UNION {[1..n -> Levels] : n \in 0..MaxEntries}

-----------------------------------------------------------------------------
Init ==
    /\ loader \in BOOLEAN
    /\ pc = IF loader THEN "load" ELSE "idle"
    /\ loaded = <<>> /\ order = <<>>
    /\ cleaned = [p \in Plugins |-> 0]
    /\ failed = {}
    /\ i = 1 /\ toRemove = <<>>
    /\ given = <<>> /\ entries = <<>>
    /\ start = 1 /\ batches = <<>>
    /\ rounds = 0

(* loadAll: any order of the directory; a file that dlopen refuses or that *)
(* misses a symbol is left out.                                            *)
LoadAll ==
    /\ pc = "load"
    /\ pc' = "idle"
    /\ \E S \in SUBSET Plugins : loaded' \in SetToSeqs(S)
    /\ order' = loaded'
    /\ UNCHANGED <<loader, cleaned, failed, i, toRemove, given, entries, start, batches, rounds>>

BeginRound ==
    /\ pc = "idle"
    /\ loader
    /\ rounds < MaxRounds
    /\ rounds' = rounds + 1
    /\ pc' = "collect"
    /\ i' = 1 /\ toRemove' = <<>>
    /\ given' = <<>> /\ entries' = <<>> /\ batches' = <<>> /\ start' = 1
    /\ UNCHANGED pluginVars

(* collectAll, one plugin.  It answers: the callback keeps the entries of  *)
(* the allowed levels.  An answer that is null, no JSON or no array is the *)
(* same as no entries.                                                     *)
PluginAnswers ==
    /\ pc = "collect"
    /\ i <= Len(loaded)
    /\ \E levels \in Answers :
        LET answer == EntriesFrom(loaded[i], levels) IN
        /\ given' = given \o answer
        /\ entries' = entries \o Kept(answer)
    /\ i' = i + 1
    /\ UNCHANGED <<pc, pluginVars, toRemove, start, batches, rounds>>

(* It throws, or an item of its answer has another type than an entry.     *)
PluginThrows ==
    /\ pc = "collect"
    /\ i <= Len(loaded)
    /\ toRemove' = Append(toRemove, i)
    /\ failed' = failed \cup {loaded[i]}
    /\ i' = i + 1
    /\ UNCHANGED <<pc, loader, loaded, order, cleaned, given, entries, start, batches, rounds>>

CollectEnds ==
    /\ pc = "collect"
    /\ i > Len(loaded)
    /\ pc' = "unload"
    /\ UNCHANGED <<pluginVars, i, toRemove, given, entries, start, batches, rounds>>

(* unloadPlugin of the plugin at an index, and its erasure. *)
Unload(n) ==
    /\ cleaned' = [cleaned EXCEPT ![loaded[n]] = @ + 1]
    /\ loaded' = RemoveAt(loaded, n)

(* Mutant of UnloadNext: the indices are taken from the front. *)
UnloadForward ==
    /\ pc = "unload"
    /\ toRemove # <<>>
    /\ IF Head(toRemove) <= Len(loaded) THEN Unload(Head(toRemove)) ELSE UNCHANGED <<cleaned, loaded>>
    /\ toRemove' = Tail(toRemove)
    /\ UNCHANGED <<pc, loader, order, failed, i, given, entries, start, batches, rounds>>

(* The failed plugins are taken out from the last to the first. *)
UnloadNext ==
    /\ pc = "unload"
    /\ toRemove # <<>>
    /\ Unload(Last(toRemove))
    /\ toRemove' = Front(toRemove)
    /\ UNCHANGED <<pc, loader, order, failed, i, given, entries, start, batches, rounds>>

UnloadEnds ==
    /\ pc = "unload"
    /\ toRemove = <<>>
    /\ pc' = "publish"
    /\ UNCHANGED <<pluginVars, i, toRemove, given, entries, start, batches, rounds>>

(* collectFromSystem: a line that is no JSON, has no message or a priority *)
(* that is no number is left out.                                          *)
ReadJournal ==
    /\ pc = "idle"
    /\ ~loader
    /\ rounds < MaxRounds
    /\ rounds' = rounds + 1
    /\ \E n \in 0..MaxEntries : \E prios \in [1..n -> Priorities] :
        given' = EntriesFrom(Journal, [k \in 1..n |-> LevelOf(prios[k])])
    /\ entries' = Kept(given')
    /\ batches' = <<>> /\ start' = 1
    /\ pc' = "publish"
    /\ UNCHANGED <<pluginVars, i, toRemove>>

(* Mutant of PublishBatch: the next batch starts one too far. *)
PublishBatchSkipping ==
    /\ pc = "publish"
    /\ start <= Len(entries)
    /\ LET end == IF start + BatchMax - 1 < Len(entries) THEN start + BatchMax - 1 ELSE Len(entries) IN
       batches' = Append(batches, SubSeq(entries, start, end))
    /\ start' = start + BatchMax + 1
    /\ UNCHANGED <<pc, pluginVars, i, toRemove, given, entries, rounds>>

PublishBatch ==
    /\ pc = "publish"
    /\ start <= Len(entries)
    /\ LET end == IF start + BatchMax - 1 < Len(entries) THEN start + BatchMax - 1 ELSE Len(entries) IN
       batches' = Append(batches, SubSeq(entries, start, end))
    /\ start' = start + BatchMax
    /\ UNCHANGED <<pc, pluginVars, i, toRemove, given, entries, rounds>>

RoundEnds ==
    /\ pc = "publish"
    /\ start > Len(entries)
    /\ pc' = "idle"
    /\ UNCHANGED <<pluginVars, i, toRemove, given, entries, start, batches, rounds>>

(* Shutdown, when the collector has been joined: unloadAll. *)
UnloadAll ==
    /\ pc = "idle"
    /\ pc' = "exit"
    /\ cleaned' = [p \in Plugins |-> IF p \in ToSet(loaded) THEN cleaned[p] + 1 ELSE cleaned[p]]
    /\ loaded' = <<>>
    /\ UNCHANGED <<loader, order, failed, i, toRemove, given, entries, start, batches, rounds>>

Next ==
    \/ LoadAll \/ BeginRound \/ ReadJournal
    \/ PluginAnswers \/ PluginThrows \/ CollectEnds
    \/ UnloadNext \/ UnloadEnds
    \/ PublishBatch \/ RoundEnds
    \/ UnloadAll

Spec == Init /\ [][Next]_vars

-----------------------------------------------------------------------------
(* s is what is left of t when only what is in S is kept: all of it, in    *)
(* the order of t.                                                         *)
IsPart(s, t, S) ==
    /\ ToSet(s) = ToSet(t) \cap S
    /\ \A a, b \in DOMAIN s : a < b =>
          \E c, d \in DOMAIN t : c < d /\ s[a] = t[c] /\ s[b] = t[d]

(* A plugin is unloaded, with one cleanup(), when it has failed or at the  *)
(* shutdown, and no other is: after the round those that did not fail are  *)
(* still there, in their order (PluginLoader.cpp:136-140).  No plugin is   *)
(* asked once it was unloaded, also when several fail in one round.        *)
OnlyFailedUnloaded ==
    /\ \A p \in Plugins : cleaned[p] <= 1
    /\ \A p \in ToSet(loaded) : cleaned[p] = 0
    /\ pc \in {"publish", "idle"} => IsPart(loaded, order, Plugins \ failed)
    /\ pc = "exit" => \A p \in ToSet(order) : cleaned[p] = 1

(* After a round every entry of an allowed level that a source gave has    *)
(* been handed over, once and in order, whatever other plugins did in that *)
(* round, in batches that are full but for the last and never empty        *)
(* (LogCollector.cpp:119-147).                                             *)
EntriesHandedOver ==
    pc = "idle" =>
        /\ IsPart(FlattenSeq(batches), given, {e \in ToSet(given) : Allowed(e)})
        /\ IsInjective(FlattenSeq(batches))
        /\ \A n \in DOMAIN batches :
              IF n < Len(batches) THEN Len(batches[n]) = BatchMax ELSE Len(batches[n]) \in 1..BatchMax
=============================================================================
