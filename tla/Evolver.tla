------------------------------- MODULE Evolver -------------------------------
(***************************************************************************)
(* The evolver (agent/evolver.py): a review asks the model for proposals,  *)
(* rates each by how far it moves the settings, files it, and writes those *)
(* of low risk into settings.yaml; the others wait for a human             *)
(* (agent/operator.py, agent/memory.py).  A review may stop anywhere: the  *)
(* process is killed, or a write raises, also after it has emptied the     *)
(* file.                                                                   *)
(*                                                                         *)
(* A setting is its dotted path; false is 0 and true is 1, as float()      *)
(* makes them.  The settings file is written between reviews by nobody.    *)
(***************************************************************************)
EXTENDS Integers, Sequences, FiniteSets, SequencesExt

CONSTANTS
    Lines,      \* the paths in the order of the file
    Leaf,       \* the last part of each
    Shipped,    \* their values
    Limits,     \* MAX_ABSOLUTE_CHANGE_BY_KEY
    NaN, Text,  \* what float() reads as no number, and cannot read
    Missing,    \* what a path reads as that is not in the file
    Answers,    \* what the model may answer: sequences of [id, diff]
    MaxReviews  \* bound on the reviews

\* Every path has a last part; a proposal without a change, or whose changes are
\* no mapping, is no proposal (evolver.py:207-210).
ASSUME EvolverAssumption ==
    /\ Lines \in Seq(DOMAIN Leaf) /\ Shipped \in [ToSet(Lines) -> Int \cup {NaN, Text}]
    /\ NaN \notin Int /\ Text \notin Int /\ Missing \notin Int \cup {NaN, Text} /\ MaxReviews \in Nat
    /\ \A a \in Answers : \A p \in ToSet(a) :
         /\ p.diff \in [DOMAIN p.diff -> Int \cup {NaN, Text}]
         /\ DOMAIN p.diff # {} /\ IsFiniteSet(DOMAIN p.diff)
    /\ \A a \in Answers : a \in Seq(ToSet(a))
    /\ \A k \in DOMAIN Limits : Limits[k] \in Nat

VARIABLES
    settings,   \* settings.yaml
    cutOff,     \* history: the lines a write has not finished
    files,      \* memory/proposals: what is on file under each id
    queue,      \* proposals of the review at work that are not done
    stage,      \* idle, next, apply or mark
    reviews

evolverVars == <<settings, cutOff, files, queue, stage, reviews>>

Keys == ToSet(Lines)
Ids  == UNION {{p.id : p \in ToSet(a)} : a \in Answers}

EvolverInit == /\ settings = Shipped /\ cutOff = {}
        /\ files = <<>> /\ queue = <<>> /\ stage = "idle" /\ reviews = 0

------------------------------------------------------------------------------
MAX_RELATIVE_CHANGE == 20  \* percent

Distance(a, b) == IF a > b THEN a - b ELSE b - a
Number(v)      == v \notin {NaN, Text, Missing}

\* The limits are asked for by the path; nothing compares with NaN.
TooBig(k, new) ==
    /\ Number(settings[k]) /\ Number(new) /\ settings[k] # 0
    /\ \/ 100 * Distance(new, settings[k]) > MAX_RELATIVE_CHANGE * Distance(settings[k], 0)
       \/ k \in DOMAIN Limits /\ Distance(new, settings[k]) > Limits[k]

\* A path that is not in the file, or a value that cannot be read.
Invalid(diff) == \E k \in DOMAIN diff :
    k \in Keys => settings[k] = Missing \/ Text \in {settings[k], diff[k]}

\* mutant: four keys are needed, and any of them may be max_open_positions
HighRiskLoosely(diff) ==
    \/ \E k \in DOMAIN diff : TooBig(k, diff[k])
    \/ Cardinality(DOMAIN diff) > 3

HighRisk(diff) ==
    \/ \E k \in DOMAIN diff : TooBig(k, diff[k])
    \/ Cardinality(DOMAIN diff) >= 3
    \/ \E k \in DOMAIN diff : Leaf[k] = "max_open_positions"

------------------------------------------------------------------------------
(* The proposals on file. *)

Filed(id, f) == [i \in DOMAIN files \cup {id} |-> IF i = id THEN f ELSE files[i]]

\* A file that is not there is read as empty.
WithStatus(id, status) ==
    Filed(id, IF id \in DOMAIN files THEN [files[id] EXCEPT !.status = status]
              ELSE [diff |-> <<>>, auto |-> FALSE, status |-> status])

\* A human's tools look at no status either.
HumanDecides ==
    /\ \E id \in DOMAIN files, status \in {"approved", "rejected"} :
          files' = WithStatus(id, status)
    /\ UNCHANGED <<settings, cutOff, queue, stage, reviews>>

------------------------------------------------------------------------------
(* A review. *)

Done == queue' = Tail(queue) /\ stage' = IF Len(queue) = 1 THEN "idle" ELSE "next"

Review ==
    /\ stage = "idle" /\ reviews < MaxReviews
    /\ reviews' = reviews + 1
    /\ \E a \in Answers : a # <<>> /\ queue' = a
    /\ stage' = "next"
    /\ UNCHANGED <<settings, cutOff, files>>

Reject ==
    /\ stage = "next" /\ Invalid(Head(queue).diff)
    /\ files' = WithStatus(Head(queue).id, "rejected")
    /\ Done
    /\ UNCHANGED <<settings, cutOff, reviews>>

\* mutant: a proposal of low risk is filed when it has been applied
FileLate ==
    LET p == Head(queue) IN
    /\ stage = "next" /\ ~Invalid(p.diff)
    /\ IF HighRisk(p.diff)
       THEN files' = Filed(p.id, [diff |-> p.diff, auto |-> FALSE, status |-> "pending"]) /\ Done
       ELSE stage' = "apply" /\ UNCHANGED <<files, queue>>
    /\ UNCHANGED <<settings, cutOff, reviews>>

File ==
    LET p == Head(queue)
        low == ~HighRisk(p.diff)
    IN
    /\ stage = "next" /\ ~Invalid(p.diff)
    /\ files' = Filed(p.id, [diff |-> p.diff, auto |-> low, status |-> "pending"])
    /\ IF low THEN stage' = "apply" /\ UNCHANGED queue ELSE Done
    /\ UNCHANGED <<settings, cutOff, reviews>>

\* The line a path is written to: the first one of that name.
LineOf(k) == Lines[CHOOSE i \in DOMAIN Lines :
                     Leaf[Lines[i]] = Leaf[k] /\ \A j \in 1..(i - 1) : Leaf[Lines[j]] # Leaf[k]]

\* What the file says with a proposal's changes: of two paths that are written to
\* one line, the last stays.
Rewritten(diff, last) ==
    [s \in Keys |-> IF \E k \in last : LineOf(k) = s
                    THEN diff[CHOOSE k \in last : LineOf(k) = s] ELSE settings[s]]

LastOnes(diff) ==
    {last \in SUBSET DOMAIN diff :
        /\ \A k \in DOMAIN diff : \E l \in last : LineOf(k) = LineOf(l)
        /\ \A k, l \in last : LineOf(k) = LineOf(l) => k = l}

Apply ==
    LET diff == Head(queue).diff IN
    /\ stage = "apply"
    /\ \E last \in LastOnes(diff) : settings' = Rewritten(diff, last)
    /\ stage' = "mark"
    /\ UNCHANGED <<cutOff, files, queue, reviews>>

\* A line that is cut has lost a digit, or reads as something else or nothing.
CutLine(v) == {Text, Missing} \cup (IF Number(v) THEN {v \div 10} ELSE {})

\* write_text empties the file and writes it anew: the process is killed, or the
\* write raises, when the file has its first n lines and perhaps a piece of the
\* next.
TearFile ==
    LET diff == Head(queue).diff IN
    /\ stage = "apply"
    /\ \E last \in LastOnes(diff), n \in 0..(Len(Lines) - 1) :
        LET whole == {Lines[i] : i \in 1..n}
            text  == Rewritten(diff, last)
        IN  \E piece \in CutLine(text[Lines[n + 1]]) :
              /\ settings' = [s \in Keys |-> IF s \in whole THEN text[s]
                                             ELSE IF s = Lines[n + 1] THEN piece ELSE Missing]
              /\ cutOff' = cutOff \cup (Keys \ whole)
    /\ stage' = "idle" /\ queue' = <<>>
    /\ UNCHANGED <<files, reviews>>

Mark ==
    /\ stage = "mark"
    /\ files' = WithStatus(Head(queue).id, "deployed")
    /\ Done
    /\ UNCHANGED <<settings, cutOff, reviews>>

\* The process is killed, or a file cannot be written and the scheduler logs it.
Stop ==
    /\ stage # "idle"
    /\ stage' = "idle" /\ queue' = <<>>
    /\ UNCHANGED <<settings, cutOff, files, reviews>>

EvolverNext == Review \/ Reject \/ File \/ Apply \/ TearFile \/ Mark \/ Stop \/ HumanDecides

EvolverSpec == EvolverInit /\ [][EvolverNext]_evolverVars

------------------------------------------------------------------------------
(* Properties. *)

\* The settings and the files keep their types.
EvolverTypeOK ==
    /\ \A k \in Keys : settings[k] \in Int \cup {NaN, Text, Missing}
    /\ cutOff \subseteq Keys
    /\ DOMAIN files \subseteq Ids
    /\ \A i \in DOMAIN files : files[i].status \in {"pending", "approved", "rejected", "deployed"}
    /\ stage \in {"idle", "next", "apply", "mark"} /\ (stage = "idle") = (queue = <<>>)
    /\ reviews \in 0..MaxReviews

\* README.md:411: max_open_positions always escalates.  Whatever is proposed under
\* whatever id and whatever a human decides meanwhile, no proposal changes the
\* number of positions, also in the presets: a write that is cut off may lose it.
PositionsKept ==
    \A k \in Keys \ cutOff : Leaf[k] = "max_open_positions" => settings[k] = Shipped[k]

\* What is on file as deployed is on file as of low risk, and has two keys at most:
\* neither an id used again nor a human's word makes another proposal of it.
DeployedWasLow ==
    \A i \in DOMAIN files : files[i].status = "deployed" =>
        files[i].auto /\ Cardinality(DOMAIN files[i].diff) \in 1..2

\* The settings never change before the change is on file.
RecordedFirst ==
    [][settings' # settings =>
        LET p == Head(queue) IN
        /\ p.id \in DOMAIN files
        /\ files[p.id].auto /\ files[p.id].diff = p.diff]_evolverVars

\* A change by a fifth at most.
ByAFifth(old, new) == 100 * Distance(new, old) <= 20 * Distance(old, 0)

\* README.md:411, where names are not shared: of a setting whose name no other line
\* has, a number other than 0 moves by a fifth at most, or becomes no number.
OwnNameByAFifth ==
    [][settings' # settings => \A l \in Keys \ cutOff' :
        /\ \A k \in Keys \ {l} : Leaf[k] # Leaf[l]
        /\ Number(settings[l]) /\ settings[l] # 0 /\ Number(settings'[l])
        => ByAFifth(settings[l], settings'[l])]_evolverVars

\* README.md:411, of every line: what is proposed for one preset or strategy is
\* written to the first line of that name, and may be far from what that one says.
EveryLineByAFifth ==
    [][settings' # settings => \A l \in Keys \ cutOff' :
        Number(settings[l]) /\ settings[l] # 0 /\ Number(settings'[l])
        => ByAFifth(settings[l], settings'[l])]_evolverVars

\* What needs a human stays with the human.
RailsHold == PositionsKept /\ DeployedWasLow

\* A change of the settings is on file before it is made and, where the name leaves
\* no doubt, within the relative rail.
ChangesAreTracked == RecordedFirst /\ OwnNameByAFifth

==============================================================================
