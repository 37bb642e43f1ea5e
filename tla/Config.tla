------------------------------- MODULE Config -------------------------------
(***************************************************************************)
(* Reading boot.conf (framework/config.go): LoadConfig tries four paths in *)
(* turn and takes the first that parses; parseData reads a file line by    *)
(* line into a map of sections, and parses an included file on the spot,   *)
(* into a map of its own that is merged into the includer's.               *)
(*                                                                         *)
(* A frame is one parseData at work.  Comments, the byte order mark and    *)
(* quotes carry no state; a value is a text, or the name of an environment *)
(* variable with a default text (ExpandValueEnv).  The files are drawn at  *)
(* the start: every content up to the bounds is tried.                     *)
(***************************************************************************)
EXTENDS Integers, Sequences

CONSTANTS
    MaxLines,   \* bound: lines of the first candidate
    MaxInc,     \* bound: lines of the included file
    MaxNest     \* bound: files open at once; the Go stack ends some day

ASSUME ConfigAssumption == MaxLines \in Nat /\ MaxInc \in Nat /\ MaxNest \in Nat \ {0}

Missing == << [kind |-> "missing"] >>

Env == [SET |-> "3", UNSET |-> ""]      \* os.Getenv

\* Strings of different spelling that strings.ToLower makes one.
Lower(s) == CASE s = "K" -> "k" [] s = "S" -> "s" [] s = "INC" -> "inc" [] OTHER -> s

Section(s)    == [kind |-> "section", name |-> s]
Set(k, e, t)  == [kind |-> "set", key |-> k, env |-> e, text |-> t]
Include(f)    == [kind |-> "include", file |-> f]
Broken        == [kind |-> "broken"]

FirstLines == {Section("S"), Set("k", "", "1"), Set("K", "SET", "2"), Include("INC"), Broken}
IncLines   == {Section("s"), Set("k", "UNSET", "4"), Include("inc"), Broken}

Contents(lines, n) == (UNION {[1 .. m -> lines] : m \in 0 .. n}) \cup {Missing}

Candidates == <<"first", "second">>     \* conf/boot.conf, /etc/.../boot.conf

VARIABLES
    disk,       \* the lines of each file
    tried,      \* the number of candidates LoadConfig has begun
    frames,     \* the files being parsed, the innermost first
    conf        \* _conf: "none", "panic", "overflow" or "loaded"
  , loaded      \* the data of the configuration, by section and key

confVars == <<disk, tried, frames, conf, loaded>>

NoData == [at \in {} |-> ""]

ConfigInit ==
    /\ disk \in [first : Contents(FirstLines, MaxLines), inc : Contents(IncLines, MaxInc),
                 second : {Missing, << Set("k", "", "5") >>}]
    /\ tried = 0 /\ frames = << >> /\ conf = "none" /\ loaded = NoData

Top == Head(frames)

Line == disk[Top.file][Top.at]

Frame(f) == [file |-> f, at |-> 1, section |-> "default", data |-> NoData]

Merged(old, new) ==
    [at \in DOMAIN old \cup DOMAIN new |-> IF at \in DOMAIN new THEN new[at] ELSE old[at]]

Expand(l) == IF l.env = "" \/ Env[l.env] = "" THEN l.text ELSE Env[l.env]

\* LoadConfig: the next candidate is parsed when none has been, or all so far
\* have failed; the fourth error is a panic.
Attempt ==
    /\ conf = "none" /\ frames = << >>
    /\ IF tried = Len(Candidates) THEN conf' = "panic" /\ UNCHANGED <<tried, frames>>
       ELSE /\ tried' = tried + 1
            /\ frames' = << Frame(Candidates[tried + 1]) >>
            /\ UNCHANGED conf
    /\ UNCHANGED <<disk, loaded>>

More == frames # << >> /\ conf = "none" /\ Top.at <= Len(disk[Top.file])

Goes(frame) == frames' = << [frame EXCEPT !.at = @ + 1] >> \o Tail(frames)

ReadSection ==
    /\ More /\ Line.kind = "section"
    /\ Goes([Top EXCEPT !.section = Lower(Line.name)])
    /\ UNCHANGED <<disk, tried, conf, loaded>>

ReadSet ==
    /\ More /\ Line.kind = "set"
    /\ LET at == <<Top.section, Lower(Line.key)>>
       IN  Goes([Top EXCEPT !.data = Merged(@, [a \in {at} |-> Expand(Line)])])
    /\ UNCHANGED <<disk, tried, conf, loaded>>

\* The file's name comes from the lower-cased key.  A file that includes
\* itself is parsed again and again until the stack of the process is full.
ReadInclude ==
    /\ More /\ Line.kind = "include"
    /\ IF Len(frames) = MaxNest THEN conf' = "overflow" /\ UNCHANGED frames
       ELSE /\ frames' = << Frame(Lower(Line.file)) >> \o frames
            /\ UNCHANGED conf
    /\ UNCHANGED <<disk, tried, loaded>>

\* An error leaves every parseData on the stack, and what they have read.
ReadFails ==
    /\ More /\ Line.kind \in {"broken", "missing"}
    /\ frames' = << >>
    /\ UNCHANGED <<disk, tried, conf, loaded>>

\* Mutant: a key the includer has set is kept.
MergedKeeping(old, new) == Merged(new, old)

\* What the includer makes of the data of an included file.
Included(old, new) == Merged(old, new)

\* The end of a file: its data goes to the includer, or is the configuration.
ReadEnds ==
    /\ frames # << >> /\ conf = "none" /\ Top.at > Len(disk[Top.file])
    /\ IF Len(frames) = 1
       THEN /\ conf' = "loaded" /\ loaded' = Top.data /\ frames' = << >>
       ELSE LET outer == frames[2]
            IN  /\ frames' = << [outer EXCEPT !.at = @ + 1,
                                   !.data = Included(@, Top.data)] >> \o Tail(Tail(frames))
                /\ UNCHANGED <<conf, loaded>>
    /\ UNCHANGED <<disk, tried>>

ConfigNext ==
    Attempt \/ ReadSection \/ ReadSet \/ ReadInclude \/ ReadFails \/ ReadEnds

ConfigSpec == ConfigInit /\ [][ConfigNext]_confVars

-----------------------------------------------------------------------------
(* What a reader of the files expects, from the text alone.                *)

\* The section line n of a file belongs to: an included file has its own.
SectionOf(f, n) ==
    LET starts == {m \in 1 .. n - 1 : disk[f][m].kind = "section"}
    IN  IF starts = {} THEN "default"
        ELSE Lower(disk[f][CHOOSE m \in starts : \A o \in starts : o <= m].name)

LineKinds(f) == {disk[f][n].kind : n \in 1 .. Len(disk[f])}

\* A file that parses, when the included file includes nothing.
Parses(f) ==
    /\ LineKinds(f) \cap {"broken", "missing"} = {}
    /\ "include" \in LineKinds(f) => LineKinds("inc") \cap {"broken", "missing", "include"} = {}

\* Line m of a file sets the value of a section and key.
Sets(f, m, at) ==
    disk[f][m].kind = "set" /\ <<SectionOf(f, m), Lower(disk[f][m].key)>> = at

\* The places that give a value, in the order of reading: <<line, line of inc>>.
Places(f, at) ==
    {<<n, 0>> : n \in {m \in 1 .. Len(disk[f]) : Sets(f, m, at)}}
    \cup
    {p \in (1 .. Len(disk[f])) \X (1 .. Len(disk.inc)) :
        disk[f][p[1]].kind = "include" /\ Sets("inc", p[2], at)}

After(p, q) == p[1] > q[1] \/ (p[1] = q[1] /\ p[2] >= q[2])

Text(f, p) == Expand(IF p[2] = 0 THEN disk[f][p[1]] ELSE disk.inc[p[2]])

\* String(section::key), getdata.
GetData(at) == IF at \in DOMAIN loaded THEN loaded[at] ELSE ""

\* A section and key have the text of the last of their places.
HasLast(f, at) ==
    LET places == Places(f, at)
    IN  IF places = {} THEN GetData(at) = ""
        ELSE \E p \in places : (\A q \in places : After(p, q)) /\ GetData(at) = Text(f, p)

\* The configuration is one candidate's, the first that parses, read whole: a
\* key has the text of its last place in that file and the files it includes,
\* each under the section of its own file, in whatever spelling; nothing is
\* left of a candidate that was read up to an error.
LastWins ==
    conf = "loaded" =>
        LET f == Candidates[tried]
        IN  /\ Parses(f)
            /\ \A t \in 1 .. tried - 1 : ~Parses(Candidates[t])
            /\ \A s \in {"default", "s"}, k \in {"k"} : HasLast(f, <<s, k>>)
=============================================================================
