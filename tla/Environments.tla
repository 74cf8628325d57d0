---------------------------- MODULE Environments -----------------------------
(* The env of one variant of a scenario, and the secrets of a run, from the   *)
(* places that have a say in them: .scenario files from the root of the tree  *)
(* to the leaf, -e settings of the command line and the labels of a matrix    *)
(* path; a secrets file and -s settings.  Everything is merged by DeepMerge   *)
(* (internal/envs/envs.go), settings by parseKeyVal                           *)
(* (internal/config/parser.go).                                               *)
(*                                                                            *)
(* An object is a function of Keys, a value [map |-> f] if it is the object   *)
(* f, [leaf |-> x] if it is anything else, arrays included, and NoValue where *)
(* an object has no such field.                                               *)
EXTENDS Integers, Sequences

CONSTANTS
  Keys,         \* names of fields
  Leaves,       \* values other than objects
  Nesting,      \* bound: objects in the fields of an object, within each other
  EnvFiles,     \* objects a file, or a label of a matrix, may hold
  Settings,     \* [path, value]: what -e or -s may ask for
  MaxSettings,  \* bounds: settings, files and labels that are merged
  MaxFiles,
  MaxLabels

VARIABLES
  target,    \* "env" or "secrets": what the settings are for
  settings,  \* settings parsed, in order
  cli,       \* cfg.Treewalker.Env, or .Secrets: what has become of them
  env,       \* scenarioConfig.Env, then totalEnv; or the secrets
  layers,    \* objects that were merged into env, in order
  stage      \* what comes next

envVars == <<target, settings, cli, env, layers, stage>>

NoValue == [none |-> TRUE]

(* Values[n] has the values with no more than n objects within each other.    *)
Values[n \in 0 .. Nesting] ==
  [leaf : Leaves] \cup {NoValue} \cup
    IF n = 0 THEN {} ELSE [map : [Keys -> Values[n - 1]]]

Objects(n) == [Keys -> Values[n]]

ASSUME EnvAssumption ==
  /\ Nesting \in Nat
  /\ EnvFiles \subseteq Objects(Nesting)
  /\ \A s \in Settings :
       /\ s.path \in Seq(Keys) /\ Len(s.path) \in 1 .. Nesting + 1
       /\ s.value \in Values[Nesting + 1 - Len(s.path)] \ {NoValue}

IsMap(v) == "map" \in DOMAIN v

NoFields == [k \in Keys |-> NoValue]

(* Mutant: objects replace each other, as anything else does. *)
DeepMergeShallow(mut, immut) ==
  [k \in Keys |-> IF immut[k] = NoValue THEN mut[k] ELSE immut[k]]

(* DeepMerge, of the fields of immut into those of mut. *)
DeepMerge(mut, immut) ==
  LET merge[n \in 0 .. Nesting] ==
        [m \in Objects(n) |-> [i \in Objects(n) |->
           [k \in Keys |->
              IF i[k] = NoValue THEN m[k]
              ELSE IF IsMap(m[k]) /\ IsMap(i[k])
                   THEN [map |-> merge[n - 1][m[k].map][i[k].map]]
                   ELSE i[k]]]]
  IN  merge[Nesting][mut][immut]

(* parseKeyVal: what is on the way becomes an object, and an object at the    *)
(* end of it is merged with the value if that is one too.  onTheWay[n] is the *)
(* target after n keys, changed[n] the field that leads to n more keys.       *)
parseKeyVal(fields, path, value) ==
  LET last == Len(path)
      onTheWay[n \in 0 .. last - 1] ==
        IF n = 0 THEN fields
        ELSE LET found == onTheWay[n - 1][path[n]]
             IN  IF IsMap(found) THEN found.map ELSE NoFields
      existing == onTheWay[last - 1][path[last]]
      changed[n \in 0 .. last - 1] ==
        IF n = 0
        THEN IF IsMap(value) /\ IsMap(existing)
             THEN [map |-> DeepMerge(existing.map, value.map)] ELSE value
        ELSE [map |-> [onTheWay[last - n] EXCEPT ![path[last - n + 1]] = changed[n - 1]]]
  IN  [fields EXCEPT ![path[1]] = changed[last - 1]]

EnvInit ==
  /\ target \in {"env", "secrets"}
  /\ settings = <<>> /\ cli = NoFields
  /\ env = NoFields /\ layers = <<>>
  /\ stage = "flags"

(* EnvMapValue.Set, for each -e or -s in turn. *)
ParseSetting(s) ==
  /\ stage = "flags" /\ Len(settings) < MaxSettings
  /\ settings' = Append(settings, s)
  /\ cli' = parseKeyVal(cli, s.path, s.value)
  /\ UNCHANGED <<target, env, layers, stage>>

ReadFiles ==
  /\ stage = "flags"
  /\ stage' = "files"
  /\ UNCHANGED <<target, settings, cli, env, layers>>

Merge(fields) ==
  /\ env' = DeepMerge(env, fields)
  /\ layers' = Append(layers, fields)
  /\ UNCHANGED <<target, settings, cli>>

(* parseAdditionalData for each .scenario file of a task; there is at most    *)
(* one file of secrets (ParseSecrets).                                        *)
ReadFile(fields) ==
  /\ stage = "files"
  /\ Len(layers) < IF target = "env" THEN MaxFiles ELSE 1
  /\ Merge(fields)
  /\ UNCHANGED stage

(* runTask, ParseSingleFile and ParseSecrets, when the files have been read.  *)
FilesRead ==
  /\ stage = "files"
  /\ Merge(cli)
  /\ stage' = IF target = "env" THEN "labels" ELSE "done"

(* startDataSource: the label of each axis of the path, over a copy.          *)
TakeLabel(fields) ==
  /\ stage = "labels"
  /\ Len(layers) <= MaxFiles + MaxLabels
  /\ Merge(fields)
  /\ UNCHANGED stage

RunVariant ==
  /\ stage = "labels"
  /\ stage' = "done"
  /\ UNCHANGED <<target, settings, cli, env, layers>>

EnvNext ==
  \/ \E s \in Settings : ParseSetting(s)
  \/ ReadFiles
  \/ \E fields \in EnvFiles : ReadFile(fields)
  \/ FilesRead
  \/ \E fields \in EnvFiles : TakeLabel(fields)
  \/ RunVariant

EnvSpec == EnvInit /\ [][EnvNext]_envVars

-----------------------------------------------------------------------------
(* What is at the end of a path, NoValue if nothing is.  Objects are all the  *)
(* same here: what is in them is at the end of longer paths.                  *)
AnObject == [map |-> NoFields]

ValueAt(fields, path) ==
  LET at[n \in 0 .. Len(path)] ==
        IF n = 0 THEN [map |-> fields]
        ELSE IF IsMap(at[n - 1]) THEN at[n - 1].map[path[n]] ELSE NoValue
  IN  IF IsMap(at[Len(path)]) THEN AnObject ELSE at[Len(path)]

(* A setting as an object of its own. *)
Nested(path, value) ==
  LET only(k, v) == [NoFields EXCEPT ![k] = v]
      nested[n \in 0 .. Len(path) - 1] ==
        IF n = 0 THEN value ELSE [map |-> only(path[Len(path) - n + 1], nested[n - 1])]
  IN  only(path[1], nested[Len(path) - 1])

(* A layer decides about a path if there is something at its end, or something *)
(* that is no object in its way.                                              *)
Decides(fields, path) ==
  \/ ValueAt(fields, path) # NoValue
  \/ \E n \in 1 .. Len(path) - 1 :
       ValueAt(fields, SubSeq(path, 1, n)) \notin {NoValue, AnObject}

LastDecides(fields, all, path) ==
  LET deciding == {i \in DOMAIN all : Decides(all[i], path)}
  IN  ValueAt(fields, path) =
        IF deciding = {} THEN NoValue
        ELSE ValueAt(all[CHOOSE i \in deciding : \A j \in deciding : j <= i], path)

CONSTANT Paths   \* the paths there may be anything at

ASSUME PathAssumption == Paths \subseteq Seq(Keys) \ {<<>>}

(* At every path stands what the last layer says that has something to say    *)
(* about it, and nothing else: an inner .scenario file wins over an outer     *)
(* one, the command line over all files, a matrix label over all of these     *)
(* (docs/env-matrix.md:61, docs/lua-api.md:14), the later setting over the    *)
(* earlier, and no field is lost because a sibling of it is set.  The command *)
(* line is one layer: settings that undo each other leave nothing behind.     *)
LastWriterWins ==
  \A path \in Paths :
    /\ LastDecides(cli, [i \in DOMAIN settings |->
                           Nested(settings[i].path, settings[i].value)], path)
    /\ LastDecides(env, layers, path)
=============================================================================
