------------------------------- MODULE Scripts -------------------------------
(***************************************************************************)
(* The repair scripts, run by hand on the two files of TradeBook while the *)
(* bot may be up: rebuild_broker_positions.py sets the broker's positions  *)
(* from the journal, cleanup_ghost_trades.py closes every open trade of    *)
(* the journal, fresh_start.py removes both files and stops the bot.       *)
(*                                                                         *)
(* A script reads, and later writes, whole files.  The bot goes on with    *)
(* what it has in memory and writes it when it saves next.                 *)
(***************************************************************************)
EXTENDS TradeBook

CONSTANT MaxScripts  \* bound on the scripts run

VARIABLES
    script,  \* the script at work: its kind and what it has read
    result,  \* the last one that ended, until the next start
    alone,   \* history: the bot has been down since the script began
    ran

scriptVars == <<script, result, alone, ran>>

NoBook    == [orders |-> EmptyMap, pos |-> Nothing, overridden |-> FALSE]
NoJournal == [trades |-> <<>>, symMap |-> EmptyMap]
NoScript      == [kind |-> "none", book |-> NoBook, journal |-> NoJournal]

ScriptsInit == Init /\ script = NoScript /\ result = NoScript /\ alone = FALSE /\ ran = 0

------------------------------------------------------------------------------
\* A file is written; the memory of a bot that is down is what its file says.
WriteBook(book) ==
    /\ brokerFile' = book
    /\ IF up THEN UNCHANGED <<broker, overridden>>
       ELSE orders' = book.orders /\ pos' = book.pos /\ overridden' = book.overridden

Begin(kind) ==
    /\ script.kind = "none" /\ ran < MaxScripts
    /\ script' = [kind |-> kind, book |-> brokerFile, journal |-> tradesFile]
    /\ alone' = ~up /\ ran' = ran + 1 /\ result' = NoScript
    /\ UNCHANGED vars

End(written) ==
    /\ result' = written /\ script' = NoScript
    /\ UNCHANGED <<alone, ran>>

\* What the filled orders of the open trades add up to.
Derived(kept) ==
    LET ts == kept.trades
    IN  [s \in Symbols |-> SumLegs(ts, {p \in LegsIn(ts) :
            /\ ~ts[p[1]].closed
            /\ ts[p[1]].legs[p[2]].symbol = s
            /\ ts[p[1]].legs[p[2]].seen = "complete"})]

Rebuild ==
    LET book == [script.book EXCEPT !.pos = Derived(script.journal), !.overridden = TRUE] IN
    /\ script.kind = "rebuild"
    /\ WriteBook(book) /\ End([script EXCEPT !.book = book])
    /\ UNCHANGED <<up, paused, tradesFile, behind, dirty, journal, op, serial, restarts, torn, killed>>

\* mutant: the map keeps the symbols of the trades that are closed
CleanedButMap(kept) ==
    [kept EXCEPT !.trades = [t \in DOMAIN kept.trades |->
                                  [kept.trades[t] EXCEPT !.closed = TRUE]]]

Cleaned(kept) ==
    [trades |-> [t \in DOMAIN kept.trades |-> [kept.trades[t] EXCEPT !.closed = TRUE]],
     symMap |-> [s \in {x \in DOMAIN kept.symMap : kept.trades[kept.symMap[x]].closed}
                   |-> kept.symMap[s]]]

CleanGhosts ==
    /\ script.kind = "ghosts"
    /\ tradesFile' = Cleaned(script.journal)
    /\ End([script EXCEPT !.journal = Cleaned(script.journal)])
    /\ UNCHANGED <<up, paused, broker, brokerFile, behind, dirty, journal, op, serial, restarts, history>>

------------------------------------------------------------------------------
(* fresh_start.py: both files go, then the bot is stopped, then reset. *)

RemoveFiles ==
    /\ script.kind = "fresh"
    /\ WriteBook(NoBook) /\ tradesFile' = NoJournal
    /\ script' = [script EXCEPT !.kind = "stop"]
    /\ UNCHANGED <<up, paused, behind, dirty, journal, op, serial, restarts, torn, killed,
                   result, alone, ran>>

\* The process ends where it is, if there is one.
StopBot ==
    /\ script.kind = "stop"
    /\ up' = FALSE /\ dirty' = FALSE /\ op' = Idle
    /\ orders' = brokerFile.orders /\ pos' = brokerFile.pos
    /\ overridden' = brokerFile.overridden
    /\ script' = [script EXCEPT !.kind = "reset"]
    /\ UNCHANGED <<paused, files, journal, serial, restarts, torn, killed, result, alone, ran>>

\* "python -m crypto_options_bot reset" empties the broker's file.
ResetBook ==
    /\ script.kind = "reset"
    /\ WriteBook(NoBook) /\ End([NoScript EXCEPT !.kind = "fresh"])
    /\ UNCHANGED <<up, paused, tradesFile, behind, dirty, journal, op, serial, restarts, torn, killed>>

------------------------------------------------------------------------------
\* A step of the bot, or its start, which takes what a script has left.
Bot ==
    /\ Next
    /\ alone' = (alone /\ ~up')
    /\ result' = IF ~up /\ up' THEN NoScript ELSE result
    /\ UNCHANGED <<script, ran>>

ScriptsNext ==
    \/ \E kind \in {"rebuild", "ghosts", "fresh"} : Begin(kind)
    \/ Rebuild \/ CleanGhosts \/ RemoveFiles \/ StopBot \/ ResetBook
    \/ Bot

ScriptsSpec == ScriptsInit /\ [][ScriptsNext]_<<vars, scriptVars>>

------------------------------------------------------------------------------
(* Properties. *)

\* The scripts and what they read keep their types.
ScriptsTypeOK ==
    /\ script.kind \in {"none", "rebuild", "ghosts", "fresh", "stop", "reset"}
    /\ result.kind \in {"none", "rebuild", "ghosts", "fresh"}
    /\ brokerFile.pos \in [Symbols -> Int] /\ pos \in [Symbols -> Int]
    /\ ran \in 0..MaxScripts /\ alone \in BOOLEAN
    /\ alone => ~up

\* A script that had the files for itself has done what it is for: positions as
\* the journal's open trades have them, no open trade, or nothing at all.
AloneTakes ==
    alone /\ script.kind = "none" =>
        /\ result.kind = "rebuild" => \A s \in Symbols : brokerFile.pos[s] = Journalled(s)
        /\ result.kind = "ghosts" =>
              \A t \in DOMAIN tradesFile.trades : tradesFile.trades[t].closed
        /\ result.kind = "fresh" => brokerFile = NoBook /\ tradesFile = NoJournal

\* A script does its work when it is alone, and when it is not, the bot that goes
\* on beside it still finds its symbols in the right trades.
ScriptsKeep == AloneTakes /\ SymbolMapExact

==============================================================================
