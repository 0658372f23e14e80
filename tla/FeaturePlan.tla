---------------------------- MODULE FeaturePlan ----------------------------
(***************************************************************************)
(* `hydrate add`, `remove`, `sync`, `doctor` and `generate` (packages/cli/ *)
(* src/): a plan is made from the manifest and the files, shown,           *)
(* confirmed, and applied file by file, the manifest last; a write that    *)
(* fails plays the journal backwards.  The developer edits files between   *)
(* commands and while a plan waits to be confirmed.  A content is a text   *)
(* and the lines in it that matter, each named for what it was made of;    *)
(* hashes compare contents.                                                *)
(***************************************************************************)
EXTENDS Integers, Sequences, SequencesExt, FiniteSetsExt, FeatureCatalogue

CONSTANTS
  Additions, Removals,      \* bounds: what add and remove are called with
  Edited,                   \* bound: paths the developer edits or deletes
  Generated,                \* what `hydrate generate` is called with -> its file, the slots it contributes to and
                            \* the features of which it needs one
  MaxCommands, MaxEdits, MaxFaults  \* bounds

VARIABLES
  disk,       \* path -> content, of the files that exist
  command,        \* the command under way
  counts      \* commands, edits and faults so far

featureVars == <<disk, command, counts>>

MANIFEST_FILE == "hydrate.features.json"
emptyManifest == [features |-> [id \in {} |-> {}], outputs |-> [path \in {} |-> {}], extra |-> {}]
readManifest(d) == IF MANIFEST_FILE \in DOMAIN d THEN d[MANIFEST_FILE] ELSE emptyManifest
Installed(d) == DOMAIN readManifest(d).features

\* Contents.
NoFile == [text |-> "none", of |-> {}]
Content(d, path) == IF path \in DOMAIN d THEN d[path] ELSE NoFile
With(d, path, content) ==
  [p \in (IF content = NoFile THEN DOMAIN d \ {path} ELSE DOMAIN d \cup {path}) |-> IF p = path THEN content ELSE d[p]]
template(id, path) == [text |-> "template", of |-> IF path = "src/jobs/commands.ts" THEN {} ELSE {id}]
Migration(verb, id) == [text |-> verb, of |-> {id}]
MigrationFiles == <<"m1", "m2", "m3", "m4", "m5", "m6", "m7", "m8", "m9", "m10", "m11", "m12", "m13", "m14">>
IsBlock(path) == Outputs[path].kind = "block"

\* The kinds of files, no two of which share a path.
Kinds == <<UNION {Features[id].files : id \in DOMAIN Features}, UNION {Features[id].scaffold : id \in DOMAIN Features},
           DOMAIN Outputs, ToSet(MigrationFiles), {MANIFEST_FILE}, {Generated[owner].file : owner \in DOMAIN Generated}>>
ASSUME KindsApart == \A m, n \in 1 .. 6 : m # n => Kinds[m] \cap Kinds[n] = {}

ASSUME CommandsAssumption ==
  /\ Additions \cup Removals \subseteq Seq(DOMAIN Features \cup DOMAIN authPresets)
  /\ MANIFEST_FILE \notin Edited

\* Lines that no feature and no generated module contributes: a blank one, and the developer's.
BlankLine == "a blank line"
OwnLine == "a line of the developer's"
ASSUME LinesApart == {BlankLine, OwnLine} \cap (DOMAIN Features \cup DOMAIN Generated) = {}

-----------------------------------------------------------------------------
\* The registry.

\* Presets are replaced by their features.
expand(request) ==
  LET members(id) == IF id \in DOMAIN authPresets THEN authPresets[id] ELSE <<id>>
  IN FlattenSeq([n \in DOMAIN request |-> members(request[n])])

\* Dependency order, otherwise registration order: what has been placed when the last of a list
\* is, where placed[v] is what v comes to.
Placing == [list : Seq(DOMAIN Features), ordered : Seq(DOMAIN Features)]
placeFeature(ids, placed, w) ==
  LET id == Last(w.list)
      before == placed[[w EXCEPT !.list = Front(@)]]
  IN IF w.list = <<>> THEN w.ordered
     ELSE IF id \in ToSet(before) \/ id \notin ids THEN before
     ELSE Append(placed[[list |-> FlattenSeq(Features[id].requires), ordered |-> before]], id)

order(ids) ==
  LET placed[w \in Placing] == placeFeature(ids, placed, w)
  IN placed[[list |-> Registered, ordered |-> <<>>]]

satisfied(options, present) == ToSet(options) \cap present # {}
Unmet(id, present) == {r \in ToSet(Features[id].requires) : ~ satisfied(r, present)}

\* resolveAdd: the first option of an unmet requirement comes first; a feature that is asked for
\* is a requirement with one option.
Including == [list : Seq(Requirements), planned : Seq(DOMAIN Features)]
include(installed, included, w) ==
  LET r == Last(w.list)
      before == included[[w EXCEPT !.list = Front(@)]]
  IN IF w.list = <<>> THEN w.planned
     ELSE IF satisfied(r, installed \cup ToSet(before)) THEN before
     ELSE Append(included[[list |-> Features[Head(r)].requires, planned |-> before]], Head(r))

Asked(request) == [n \in DOMAIN expand(request) |-> <<expand(request)[n]>>]
Planned(installed, request) ==
  LET included[w \in Including] == include(installed, included, w)
  IN ToSet(included[[list |-> Asked(request), planned |-> <<>>]])

Conflicting(planned, installed) ==
  \/ \E id \in planned : Features[id].conflicts \cap (installed \cup planned) # {}
  \/ \E id \in installed : Features[id].conflicts \cap planned # {}

Stranded(installed, removing) == {id \in installed \ removing : Unmet(id, installed \ removing) # {}}

\* Mutant: those that need a removed feature go, not those that need them.
cascadedOnce(removing, installed) == removing \cup Stranded(installed, removing)

\* resolveRemove: what would be left unmet goes too.
cascaded(removing, installed) ==
  LET all[gone \in SUBSET installed] ==
        IF Stranded(installed, gone) = {} THEN gone ELSE all[gone \cup Stranded(installed, gone)]
  IN all[removing]

Direct(installed, request) == ToSet(expand(request)) \cap installed

-----------------------------------------------------------------------------
\* The plan: a sequence of changes that ends with the manifest's, or Refused.

Refused == <<>>
Change(path, content) == <<[path |-> path, content |-> content]>>
Changes(to) ==
  LET paths == SetToSeq(DOMAIN to) IN [n \in DOMAIN paths |-> [path |-> paths[n], content |-> to[paths[n]]]]
Deletions(paths) == Changes([path \in paths |-> NoFile])

\* renderOutputs: an output exists while any installed feature declares it, and renders what the
\* installed features and the manifest's extra section contribute to its slots.
OutputPaths(ids) == {o.path : o \in UNION {Features[id].outputs : id \in ids}}
renderOutputs(ids, extra) ==
  [path \in OutputPaths(ids) |-> {id \in ids : Features[id].slots \cap Outputs[path].slots # {}}
                              \cup {owner \in extra : Generated[owner].slots \cap Outputs[path].slots # {}}]

\* A block is what is between its markers; the text around them stays.  It is read as its lines
\* joined, so one blank line reads as no line at all; it is replaced with the lines there are to be.
HasMarkers(content) == content.text \in {"initial", "edited around"}
readBlock(content) == IF content.of = {BlankLine} THEN {} ELSE content.of
replaceBlock(content, made) == [content EXCEPT !.of = made]

Lost(d, ids) == {path \in OutputPaths(ids) : IsBlock(path) /\ path \in DOMAIN d /\ ~ HasMarkers(d[path])}

Updated(d, path, ids) ==
  LET made == renderOutputs(ids, readManifest(d).extra)[path]
  IN IF ~ IsBlock(path) THEN [text |-> "generated", of |-> made]
     ELSE replaceBlock(IF path \in DOMAIN d THEN d[path] ELSE [text |-> "initial", of |-> {}], made)

outputSteps(d, ids) ==
  LET before == readManifest(d).outputs
      stale == {path \in OutputPaths(ids) : Content(d, path) # Updated(d, path, ids)}
      gone == {path \in DOMAIN before \ OutputPaths(ids) : ~ IsBlock(path) /\ Content(d, path) = before[path]}
  IN Changes([path \in stale |-> Updated(d, path, ids)]) \o Deletions(gone)

\* The manifest once the plan is applied.
NextManifest(d, files) ==
  [features |-> files, outputs |-> [path \in OutputPaths(DOMAIN files) |-> Updated(d, path, DOMAIN files)],
   extra |-> readManifest(d).extra]

\* The migration of the n-th of some features: timestamped names, each after those there are.
Migrated(d, ids, n, verb) ==
  LET last == Max({0} \cup {k \in DOMAIN MigrationFiles : MigrationFiles[k] \in DOMAIN d})
      at == last + Cardinality({k \in 1 .. n : Features[ids[k]].migration})
  IN IF Features[ids[n]].migration /\ at \in DOMAIN MigrationFiles
     THEN Change(MigrationFiles[at], Migration(verb, ids[n])) ELSE <<>>

Adds(d, ids, n) ==
  Changes([path \in Features[ids[n]].files \ DOMAIN d |-> template(ids[n], path)])
  \o Changes([path \in Features[ids[n]].scaffold \ DOMAIN d |-> [text |-> "scaffold", of |-> {}]])
  \o Migrated(d, ids, n, "add")

Taken(d, id) == {path \in Features[id].files \cap DOMAIN d : d[path] # template(id, path)}

planAdd(d, request) ==
  LET installed == Installed(d)
      added == Planned(installed, request)
      after == installed \cup added
      files == [id \in after |-> IF id \in added THEN [path \in Features[id].files |-> template(id, path)]
                                ELSE readManifest(d).features[id]]
  IN IF Conflicting(added, installed) \/ (\E id \in added : Taken(d, id) # {}) \/ Lost(d, after) # {} THEN Refused
     ELSE FlattenSeq([n \in DOMAIN order(added) |-> Adds(d, order(added), n)])
          \o outputSteps(d, after) \o Change(MANIFEST_FILE, NextManifest(d, files))

Removes(d, ids, n, force) ==
  LET files == readManifest(d).features[ids[n]]
  IN Deletions({path \in DOMAIN files \cap DOMAIN d : force \/ d[path] = files[path]}) \o Migrated(d, ids, n, "remove")

planRemove(d, request, cascade, force) ==
  LET installed == Installed(d)
      direct == Direct(installed, request)
      removed == cascaded(direct, installed)
      after == installed \ removed
      removal == Reverse(order(removed))
  IN IF (\E id \in ToSet(request) : Direct(installed, <<id>>) = {}) \/ (~ cascade /\ removed # direct)
        \/ Lost(d, after) # {} THEN Refused
     ELSE FlattenSeq([n \in DOMAIN removal |-> Removes(d, removal, n, force)])
          \o outputSteps(d, after) \o Change(MANIFEST_FILE, NextManifest(d, [id \in after |-> readManifest(d).features[id]]))

planSync(d) ==
  IF Lost(d, Installed(d)) # {} THEN Refused
  ELSE outputSteps(d, Installed(d)) \o Change(MANIFEST_FILE, NextManifest(d, readManifest(d).features))

\* doctor: what diagnose says is wrong with the generated files.
diagnose(d) ==
  LET manifest == readManifest(d)
      made == renderOutputs(DOMAIN manifest.features, manifest.extra)
  IN {path \in DOMAIN made :
        \/ path \notin DOMAIN d
        \/ IsBlock(path) /\ (~ HasMarkers(d[path]) \/ readBlock(d[path]) # made[path])
        \/ ~ IsBlock(path) /\ d[path] # [text |-> "generated", of |-> made[path]]}

-----------------------------------------------------------------------------
\* Running a command.

NoCommand == [mode |-> "idle", todo |-> <<>>, undo |-> <<>>, origin |-> <<>>, force |-> FALSE,
          touched |-> {}, undone |-> TRUE, again |-> <<>>]

\* A new project, or one of whose features none is left but what was generated with them.
FeaturesInit ==
  /\ \/ disk = [path \in {} |-> NoFile]
     \/ \E owners \in (SUBSET DOMAIN Generated) \ {{}} : disk = [path \in {MANIFEST_FILE} |-> [emptyManifest EXCEPT !.extra = owners]]
  /\ command = NoCommand
  /\ counts = [commands |-> 0, edits |-> 0, faults |-> 0]

Counts(what) == counts' = [counts EXCEPT ![what] = @ + 1]

\* A plan is shown; one without a change but the manifest ends the command.
Plan(changes, force, again) ==
  /\ command.mode = "idle" /\ counts.commands < MaxCommands
  /\ changes # Refused
  /\ Len(changes) > 1 \/ Last(changes).content.features # readManifest(disk).features
  /\ command' = [NoCommand EXCEPT !.mode = "planned", !.todo = changes, !.force = force, !.again = again]
  /\ Counts("commands") /\ UNCHANGED disk

add(request) == Plan(planAdd(disk, request), FALSE, request)
remove(request, cascade, force) == Plan(planRemove(disk, request, cascade, force), force, <<>>)
sync == Plan(planSync(disk), FALSE, <<>>)

\* generate module --auth, job or listener: its file first, then what it contributes is recorded in
\* the manifest that is applied with the outputs; when a block lost its markers only the file is left.
generate(owner) ==
  LET given == Generated[owner]
      written == With(disk, given.file, [text |-> "scaffold", of |-> {}])
      recorded == [readManifest(disk) EXCEPT !.extra = @ \cup {owner}]
      changes == planSync(With(written, MANIFEST_FILE, recorded))
  IN /\ command.mode = "idle" /\ counts.commands < MaxCommands
     /\ given.needs \cap Installed(disk) # {} /\ given.file \notin DOMAIN disk
     /\ disk' = written
     /\ command' = IF changes = Refused THEN NoCommand
                   ELSE [NoCommand EXCEPT !.mode = "writing", !.todo = changes, !.origin = <<written>>]
     /\ Counts("commands")

\* --dry-run, or the answer is no.
Decline ==
  /\ command.mode = "planned"
  /\ command' = NoCommand /\ UNCHANGED <<disk, counts>>

Confirm ==
  /\ command.mode = "planned"
  /\ command' = [command EXCEPT !.mode = "writing", !.origin = <<disk>>]
  /\ UNCHANGED <<disk, counts>>

\* applyPlan: the journal first, then the write, or the rm of a file that must exist.
Journal == Append(command.undo, [path |-> Head(command.todo).path, content |-> Content(disk, Head(command.todo).path)])

Write ==
  /\ command.mode = "writing" /\ command.todo # <<>>
  /\ LET change == Head(command.todo)
     IN /\ change.content = NoFile => change.path \in DOMAIN disk
        /\ disk' = With(disk, change.path, change.content)
  /\ command' = [command EXCEPT !.todo = Tail(@), !.undo = Journal]
  /\ UNCHANGED counts

WriteFails ==
  /\ command.mode = "writing" /\ command.todo # <<>>
  /\ \/ Head(command.todo).content = NoFile /\ Head(command.todo).path \notin DOMAIN disk /\ UNCHANGED counts
     \/ counts.faults < MaxFaults /\ Counts("faults")
  /\ command' = [command EXCEPT !.mode = "undoing", !.todo = <<>>, !.undo = Reverse(Journal)]
  /\ UNCHANGED disk

\* Each entry is put back; an error of that is swallowed.
UndoChange ==
  /\ command.mode = "undoing" /\ command.undo # <<>>
  /\ \/ disk' = With(disk, Head(command.undo).path, Head(command.undo).content)
        /\ command' = [command EXCEPT !.undo = Tail(@)] /\ UNCHANGED counts
     \/ counts.faults < MaxFaults /\ Counts("faults")
        /\ command' = [command EXCEPT !.undo = Tail(@), !.undone = FALSE] /\ UNCHANGED disk

Applied ==
  /\ command.mode = "writing" /\ command.todo = <<>>
  /\ command' = NoCommand /\ UNCHANGED <<disk, counts>>

Failed ==
  /\ command.mode = "undoing" /\ command.undo = <<>>
  /\ command' = NoCommand /\ UNCHANGED <<disk, counts>>

\* The process dies between two writes.
Killed ==
  /\ command.mode \in {"writing", "undoing"}
  /\ counts.faults < MaxFaults /\ Counts("faults")
  /\ command' = [NoCommand EXCEPT !.again = command.again] /\ UNCHANGED disk

\* The developer changes a file, takes lines out of a block, puts one in or changes what is around
\* it, or deletes the file.
Edit(path) ==
  /\ command.mode \in {"idle", "planned"} /\ counts.edits < MaxEdits /\ path \in DOMAIN disk
  /\ \/ disk' = With(disk, path, [text |-> "edited", of |-> {}])
     \/ disk' = With(disk, path, NoFile)
     \/ HasMarkers(disk[path]) /\ disk' = With(disk, path, [disk[path] EXCEPT !.text = "edited around"])
     \/ HasMarkers(disk[path]) /\ \E lines \in {{}, disk[path].of \cup {BlankLine}, disk[path].of \cup {OwnLine}} :
          disk' = With(disk, path, [disk[path] EXCEPT !.of = lines])
  /\ command' = [command EXCEPT !.touched = @ \cup {path}, !.again = <<>>]
  /\ Counts("edits")

FeaturesNext ==
  \/ \E request \in Additions : add(request)
  \/ \E request \in Removals, cascade, force \in BOOLEAN : remove(request, cascade, force)
  \/ \E owner \in DOMAIN Generated : generate(owner)
  \/ sync \/ Decline \/ Confirm \/ Write \/ WriteFails \/ UndoChange \/ Applied \/ Failed \/ Killed
  \/ \E path \in Edited : Edit(path)

FeaturesSpec == FeaturesInit /\ [][FeaturesNext]_featureVars

-----------------------------------------------------------------------------
\* Properties.

\* Whatever was added, removed, undone or cut off, the installed features have what
\* they require and exclude one another nowhere (resolve.ts), no two of them own one
\* path, and each finds the output that renders its contributions and its commands.
InstalledFit ==
  LET ids == Installed(disk)
      paths == OutputPaths(ids)
  IN command.mode = "idle" =>
     /\ \A id \in ids : Unmet(id, ids) = {} /\ Features[id].conflicts \cap ids = {}
     /\ \A a, b \in ids : a # b => Features[a].files \cap Features[b].files = {}
     /\ \A id \in ids : /\ Features[id].slots \subseteq UNION {Outputs[path].slots : path \in paths}
                        /\ Features[id].commandsModule \subseteq paths \cup Features[id].files

\* doctor and sync compare files with what they should be separately (doctor.ts:51, plan.ts:181).
\* What sync would leave as it is doctor finds nothing wrong with; where doctor finds nothing wrong
\* sync can be run and would change nothing but one blank line, which it takes out of a block where
\* no line is due (doctor.ts:57 reads it as nothing).  And a command that was applied leaves
\* nothing to doctor but what the developer touched since the plan.
BlankOnly(d, change) ==
  /\ change.path \in DOMAIN d /\ IsBlock(change.path)
  /\ d[change.path].of = {BlankLine} /\ change.content = [d[change.path] EXCEPT !.of = {}]
DoctorKnows ==
  LET silent == diagnose(disk) = {}
      changes == {change \in ToSet(planSync(disk)) : change.path # MANIFEST_FILE}
  IN /\ command.mode = "idle" => (silent <=> planSync(disk) # Refused /\ \A change \in changes : BlankOnly(disk, change))
     /\ command.mode = "writing" /\ command.todo = <<>> => diagnose(disk) \subseteq command.touched

\* An add that was cut off and not edited upon can be run again: what it left is adopted.
AddsAgain ==
  command.mode = "idle" /\ command.again # <<>> => planAdd(disk, command.again) # Refused

\* A failed apply leaves every file as it was, unless undoing failed too (apply.ts:7).
AllOrNothing == command.mode = "undoing" /\ command.undo = <<>> /\ command.undone => <<disk>> = command.origin

\* No command changes or deletes what the developer wrote, be it in a feature's file,
\* a scaffold or around a block, unless forced, or the file was touched only after the plan
\* was made (cli.ts:70 asks between the two).
EditsSurvive ==
  command.mode = "writing" /\ ~ command.force =>
    \A before \in ToSet(command.origin) : \A path \in DOMAIN before \ (command.touched \cup {MANIFEST_FILE}) :
      /\ before[path].text \in {"edited", "edited around"}
      /\ path \in DOMAIN Outputs => IsBlock(path)
      => Content(disk, path).text = before[path].text

\* What generate recorded stays recorded, so that the block keeps its lines through every later
\* command (generate/index.ts:62).
RecordedStays ==
  command.mode = "writing" =>
    \A before \in ToSet(command.origin) : readManifest(before).extra \subseteq readManifest(disk).extra

\* What the commands promise.
FeaturesHold == InstalledFit /\ DoctorKnows /\ AddsAgain /\ AllOrNothing /\ EditsSurvive /\ RecordedStays
=============================================================================
