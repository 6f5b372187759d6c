----------------------------- MODULE ChannelLog -----------------------------
(***************************************************************************)
(* The log of a channel (src/channel.go), by which moderators point at     *)
(* somebody: everybody is Anonymous, so that KICK, BAN and KILL name an    *)
(* entry of the log instead of a client.                                   *)
(*                                                                         *)
(* The entries are kept under the nanosecond they were made in, which is   *)
(* taken to grow from one entry to the next, so that sorted by time they   *)
(* are the sequence in which they were made.                               *)
(***************************************************************************)
EXTENDS Integers, Sequences, FiniteSets

CONSTANTS
    PerPage,   \* CHANNEL_LOGS_PER_PAGE
    Indices    \* the indices below this one are printed in three digits

ASSUME ChannelLogAssumption == PerPage \in Nat \ {0} /\ Indices \in Nat

Actions == {"JOIN", "PART", "PRIVMSG"}

\* the places in the log, counted from zero
Places(log) == 0..(Len(log) - 1)

(***************************************************************************)
(* An identifier is the index of the entry and the last two digits of its  *)
(* time.  From index Indices on it is longer than the five characters that *)
(* RevealInfo accepts.                                                     *)
(***************************************************************************)
Identifier(log, i) == <<i, log[i + 1].digits>>

FiveCharacters(id) == id[1] < Indices

\* RevealInfo: the entries an identifier names, at most one
Named(log, id) ==
    {i \in Places(log) : FiveCharacters(id) /\ Identifier(log, i) = id}

(***************************************************************************)
(* RevealLog: a page begins at a fixed place of the whole log and has the  *)
(* next PerPage entries that are to be shown; page -1 has them all.        *)
(***************************************************************************)
Listed(log, showAll) ==
    {i \in Places(log) : showAll \/ log[i + 1].action \notin {"JOIN", "PART"}}

From(log, page, showAll) ==
    {i \in Listed(log, showAll) : page = -1 \/ i >= PerPage * (page - 1)}

Before(log, page, showAll, i) == {j \in From(log, page, showAll) : j < i}

Page(log, page, showAll) ==
    {i \in From(log, page, showAll) :
        page = -1 \/ Cardinality(Before(log, page, showAll, i)) < PerPage}

\* Mutant: a page that is full is taken to be the last
LogsRemainNever(log, page, showAll) ==
    page # -1 /\ Cardinality(From(log, page, showAll)) > 2 * PerPage

\* the last line of a page names the next one
LogsRemain(log, page, showAll) ==
    page # -1 /\ Cardinality(From(log, page, showAll)) > PerPage

\* Mutant: entries are numbered as they are shown
PrintedCounted(log, page, showAll) ==
    {[id |-> <<Cardinality(Before(log, page, showAll, i)), log[i + 1].digits>>,
      author |-> log[i + 1].author] : i \in Page(log, page, showAll)}

\* what a page shows: identifiers, and who wrote the entries
Printed(log, page, showAll) ==
    {[id |-> Identifier(log, i), author |-> log[i + 1].author] :
        i \in Page(log, page, showAll)}

=============================================================================
