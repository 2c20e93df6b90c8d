------------------------------- MODULE Config -------------------------------
(***************************************************************************)
(* ConfigParser (utils/ConfigParser.h): parse_conf reads a file line by    *)
(* line, enters the files it imports where they are imported, and keeps    *)
(* the assignments in a map.  A failed CHECK ends the process.             *)
(***************************************************************************)
EXTENDS Naturals, Sequences, SequencesExt

CONSTANTS
    Root,       \* the file the process is started with
    ConfFiles,  \* the files that exist
    Paths,      \* what a line may import
    ConfKeys,   \* the keys
    ConfValues, \* the values
    MaxLines,   \* bound: lines of a file
    MaxDepth    \* bound: files that can be open at once

ASSUME ConfigAssumption ==
    /\ Root \in ConfFiles /\ ConfFiles \subseteq Paths
    /\ MaxLines \in Nat /\ MaxDepth \in Nat \ {0}

(***************************************************************************)
(* A line, by what parse_conf makes of it: nothing (it is blank or a       *)
(* comment), an import, an assignment, or a line key_value_split CHECKs    *)
(* for its missing delimiter.                                              *)
(***************************************************************************)
Skipped      == [kind |-> "skip"]
Malformed    == [kind |-> "malformed"]
Import(path) == [kind |-> "import", path |-> path]
Assign(k, v) == [kind |-> "set", key |-> k, value |-> v]

Lines == {Skipped, Malformed}
         \cup {Import(path) : path \in Paths}
         \cup {Assign(k, v) : k \in ConfKeys, v \in ConfValues}

VARIABLES
    content,  \* the lines of every file
    frames,   \* the calls of parse_conf: a file, and the lines read of it
    dic,      \* _dic
    verdict   \* whether parse has returned, or a CHECK has failed

configVars == <<content, frames, dic, verdict>>

Frame(path) == [path |-> path, line |-> 0]

ConfigInit ==
    /\ content \in [ConfFiles -> UNION {[1 .. n -> Lines] : n \in 0 .. MaxLines}]
    /\ frames = <<Frame(Root)>>
    /\ dic = [k \in {} |-> Root]
    /\ verdict = "parsing"

\* The innermost call, the line that getline returns to it, and the calls
\* when it has been read.
Current == Last(frames)
NextLine == content[Current.path][Current.line + 1]
LineRead == [frames EXCEPT ![Len(frames)].line = @ + 1]

\* getline fails.
AtEnd == Current.line = Len(content[Current.path])

\* Mutant: a later assignment replaces an earlier one.
SetConfigAgain(k, v) ==
    dic' = [x \in DOMAIN dic \cup {k} |-> IF x = k THEN v ELSE dic[x]]

\* set_config: insert leaves a key alone that is there already.
SetConfig(k, v) ==
    dic' = [x \in DOMAIN dic \cup {k} |-> IF x \in DOMAIN dic THEN dic[x] ELSE v]

\* A file can be opened that exists, while descriptors are left.
CanOpen(path) == path \in ConfFiles /\ Len(frames) < MaxDepth

SkipLine ==
    /\ NextLine = Skipped
    /\ frames' = LineRead
    /\ UNCHANGED <<content, dic, verdict>>

FailLine ==
    /\ NextLine = Malformed
    /\ verdict' = "failed"
    /\ UNCHANGED <<content, frames, dic>>

\* A file may not import itself; nothing else keeps imports from a cycle.
ImportFile(path) ==
    /\ NextLine = Import(path)
    /\ IF path # Current.path /\ CanOpen(path)
       THEN frames' = Append(LineRead, Frame(path)) /\ UNCHANGED verdict
       ELSE verdict' = "failed" /\ UNCHANGED frames
    /\ UNCHANGED <<content, dic>>

AssignKey(k, v) ==
    /\ NextLine = Assign(k, v)
    /\ frames' = LineRead
    /\ SetConfig(k, v)
    /\ UNCHANGED <<content, verdict>>

ParseLine ==
    /\ verdict = "parsing"
    /\ ~AtEnd
    /\ \/ SkipLine
       \/ FailLine
       \/ \E path \in Paths : ImportFile(path)
       \/ \E k \in ConfKeys, v \in ConfValues : AssignKey(k, v)

\* The call returns.
EndOfFile ==
    /\ verdict = "parsing"
    /\ AtEnd
    /\ frames' = Front(frames)
    /\ verdict' = IF Len(frames) = 1 THEN "parsed" ELSE verdict
    /\ UNCHANGED <<content, dic>>

ConfigNext == ParseLine \/ EndOfFile

ConfigSpec == ConfigInit /\ [][ConfigNext]_configVars

-----------------------------------------------------------------------------
ConfigTypeOK ==
    /\ \A i \in DOMAIN frames : frames[i].path \in ConfFiles
    /\ Len(frames) <= MaxDepth
    /\ DOMAIN dic \subseteq ConfKeys
    /\ \A k \in DOMAIN dic : dic[k] \in ConfValues
    /\ verdict \in {"parsing", "parsed", "failed"}

(***************************************************************************)
(* What the files say, taken together.  A place is a line with the lines   *)
(* that import its file, from a line of Root on; a line stands at as many  *)
(* places as its file is imported.                                         *)
(***************************************************************************)
Entries == UNION {{[path |-> f, line |-> n] : n \in DOMAIN content[f]} : f \in ConfFiles}

LineAt(e) == content[e.path][e.line]

IsPlace(p) ==
    /\ p[1].path = Root
    /\ \A i \in 1 .. Len(p) - 1 :
          LineAt(p[i]) = Import(p[i + 1].path) /\ p[i + 1].path # p[i].path

Places == {p \in UNION {[1 .. n -> Entries] : n \in 1 .. MaxDepth} : IsPlace(p)}

LineOf(p) == LineAt(p[Len(p)])

\* With every imported file in the place of its import, p comes before q.
Precedes(p, q) ==
    \E i \in DOMAIN p \cap DOMAIN q : /\ \A j \in 1 .. i - 1 : p[j] = q[j]
                                      /\ p[i].line < q[i].line

\* A line with its delimiter, the import of another file that can be opened.
Readable(p) ==
    /\ LineOf(p) # Malformed
    /\ \A path \in Paths : LineOf(p) = Import(path) =>
          path \in ConfFiles \ {p[Len(p)].path} /\ Len(p) < MaxDepth

IsFirst(k, v) ==
    \E p \in Places : /\ LineOf(p) = Assign(k, v)
                      /\ \A q \in Places, u \in ConfValues :
                            LineOf(q) = Assign(k, u) => ~Precedes(q, p)

(***************************************************************************)
(* The configuration that is parsed is the one the files describe: every   *)
(* key that is assigned somewhere has the value of its first assignment,   *)
(* an import counting where it stands (ConfigParser.h:93-118), so that the *)
(* file imported first prevails over what the importing file says below.   *)
(* Parsing fails for a malformed line, a file that cannot be opened and a  *)
(* cycle of imports, and for nothing else.                                 *)
(***************************************************************************)
ConfigMatchesReference ==
    /\ verdict = "parsed" =>
          /\ \A p \in Places :
                /\ Readable(p)
                /\ \A k \in ConfKeys, v \in ConfValues :
                      LineOf(p) = Assign(k, v) => k \in DOMAIN dic
          /\ \A k \in DOMAIN dic : IsFirst(k, dic[k])
    /\ verdict = "failed" => \E p \in Places : ~Readable(p)
=============================================================================
