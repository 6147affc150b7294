----------------------------- MODULE BaiduLinks -----------------------------
(***************************************************************************)
(* Ranges of one file that several tasks read through one adapter of       *)
(* baidupan.rs: the download links they share, the race of two hosts for   *)
(* each range and what is remembered of the hosts.                         *)
(*                                                                         *)
(* The links of one answer of locatedownload are a number; there is one of *)
(* them for each host.  Of a host the program knows here whether it failed *)
(* in the last minute, the term of the score that outweighs the others.    *)
(***************************************************************************)
EXTENDS Naturals, Sequences, FiniteSets, SequencesExt

CONSTANTS Reads,       \* tasks, each at a range of its own
          Hosts,       \* the hosts in the order of the answer
          MaxLinks,    \* bound: answers of locatedownload
          MaxAttempts  \* bound: reads of one range

\* There are always two candidates to race.
ASSUME HostsAssumption ==
  /\ Len(Hosts) \in Nat \ {0, 1} /\ DOMAIN Hosts = 1..Len(Hosts)
  /\ MaxLinks \in Nat /\ MaxAttempts \in Nat

VARIABLES
  links,     \* the cached links, 0 when there are none
  located,   \* the provider's last answer
  withdrawn, \* links up to this one are refused
  aged,      \* history: cached links that were given up for their age
  ended,     \* history: how often the provider withdrew its links
  lock,      \* the tasks that hold the lock of the path
  failing,   \* hosts that failed lately
  attempts,  \* range_attempts: reads of each range so far
  read       \* what each task is doing

linkVars == <<links, located, withdrawn, aged, ended, lock, failing, attempts, read>>

Resting == [pc |-> "idle", got |-> 0, try |-> 0, bias |-> 0, order |-> <<>>, asked |-> 0,
            lost |-> {}, stale |-> FALSE, was |-> {}, cause |-> FALSE]

Answers == {"idle", "ok", "error", "stalled"}

SetRead(t, new) == read' = [read EXCEPT ![t] = new]
At(t, where) == [read[t] EXCEPT !.pc = where]
Answered(t, how) == [Resting EXCEPT !.pc = how, !.cause = read[t].cause]

\* The place of a host, counted from 0: those that failed come last, the others stay in
\* the order of the answer.
Before(i, j) == LET failed(k) == Hosts[k] \in failing
                IN  IF failed(i) = failed(j) THEN i < j ELSE failed(j)
Place(i) == Cardinality({j \in DOMAIN Hosts : Before(j, i)})

\* ordered_download_urls: by place, then turned by the reads there were of the range.
Candidates(bias) ==
  [k \in 1..2 |-> Hosts[CHOOSE i \in DOMAIN Hosts : Place(i) = (bias + (k - 1)) % Len(Hosts)]]

\* The race: the first candidate is asked at once.
Race(t, got) == [At(t, "race") EXCEPT !.got = got, !.order = Candidates(read[t].bias),
                                      !.asked = 1, !.lost = {}, !.stale = FALSE]

\* get_range_tracked, and next_range_retry_bias.
StartRead(t) ==
  /\ read[t].pc \in Answers /\ attempts[t] < MaxAttempts
  /\ attempts' = [attempts EXCEPT ![t] = @ + 1]
  /\ SetRead(t, [Resting EXCEPT !.pc = "look", !.bias = attempts[t], !.was = read[t].was])
  /\ UNCHANGED <<links, located, withdrawn, aged, ended, lock, failing>>

Look(t) ==
  /\ read[t].pc = "look"
  /\ SetRead(t, IF links # 0 THEN Race(t, links) ELSE At(t, "want"))
  /\ UNCHANGED <<links, located, withdrawn, aged, ended, lock, failing, attempts>>

\* The lock of the path, and under it a second look.
LockPath(t) ==
  /\ read[t].pc = "want" /\ lock = {}
  /\ IF links # 0 THEN SetRead(t, Race(t, links)) /\ UNCHANGED lock
                  ELSE SetRead(t, At(t, "ask")) /\ lock' = {t}
  /\ UNCHANGED <<links, located, withdrawn, aged, ended, failing, attempts>>

Located(t) ==
  /\ read[t].pc = "ask" /\ located < MaxLinks
  /\ located' = located + 1 /\ links' = located + 1 /\ lock' = {}
  /\ SetRead(t, Race(t, located + 1))
  /\ UNCHANGED <<withdrawn, aged, ended, failing, attempts>>

LocateFails(t) ==
  /\ read[t].pc = "ask"
  /\ lock' = {}
  /\ SetRead(t, [Resting EXCEPT !.pc = "error", !.cause = TRUE])
  /\ UNCHANGED <<links, located, withdrawn, aged, ended, failing, attempts>>

\* After hedge_delay the second candidate is asked too, whether the first one has failed or not.
Hedge(t) ==
  /\ read[t].pc = "race" /\ read[t].asked = 1 /\ Len(read[t].order) > 1
  /\ SetRead(t, [read[t] EXCEPT !.asked = 2])
  /\ UNCHANGED <<links, located, withdrawn, aged, ended, lock, failing, attempts>>

Out(t, i) == read[t].pc = "race" /\ i <= read[t].asked /\ i \notin read[t].lost

\* A candidate answers with the range: the other request is dropped.
Win(t, i) ==
  /\ Out(t, i) /\ read[t].got > withdrawn
  /\ SetRead(t, [Resting EXCEPT !.pc = "body", !.order = <<read[t].order[i]>>])
  /\ UNCHANGED <<links, located, withdrawn, aged, ended, lock, failing, attempts>>

\* It answers, but not with the range that was asked for.
WinsWrongly(t, i) ==
  /\ Out(t, i) /\ read[t].got > withdrawn
  /\ failing' = failing \cup {read[t].order[i]}
  /\ SetRead(t, [Resting EXCEPT !.pc = "error", !.cause = TRUE])
  /\ UNCHANGED <<links, located, withdrawn, aged, ended, lock, attempts>>

\* It refuses links that were withdrawn, or has trouble of its own.
Lose(t, i, refused) ==
  /\ Out(t, i) /\ (refused => read[t].got <= withdrawn)
  /\ failing' = failing \cup {read[t].order[i]}
  /\ SetRead(t, [read[t] EXCEPT !.lost = @ \cup {i}, !.stale = @ \/ refused, !.cause = @ \/ ~refused])
  /\ UNCHANGED <<links, located, withdrawn, aged, ended, lock, attempts>>

\* Mutants: whatever is cached goes; nothing goes.
InvalidateAny(got) == links' = 0
KeepLinks(got) == UNCHANGED links

\* invalidate_links_if_same
InvalidateIfSame(got) == links' = IF links = got THEN 0 ELSE links

\* Every candidate has failed: once there is another round when links were refused.
\* It is lost too when the links another task cached meanwhile were withdrawn as well.
RaceLost(t) ==
  /\ read[t].pc = "race" /\ read[t].lost = 1..Len(read[t].order)
  /\ IF read[t].try = 0 /\ read[t].stale
     THEN /\ InvalidateIfSame(read[t].got)
          /\ SetRead(t, [Resting EXCEPT !.pc = "look", !.try = 1, !.bias = read[t].bias, !.cause =
                            read[t].cause \/ (links # read[t].got /\ links \in 1..withdrawn)])
     ELSE SetRead(t, Answered(t, "error")) /\ UNCHANGED links
  /\ UNCHANGED <<located, withdrawn, aged, ended, lock, failing, attempts>>

\* The body arrives, breaks off, or stands still until the engine's time is up
\* (with_timeout_feedback).
Body(t) ==
  /\ read[t].pc = "body"
  /\ \/ SetRead(t, Answered(t, "ok")) /\ UNCHANGED failing
     \/ /\ failing' = failing \cup {read[t].order[1]}
        /\ SetRead(t, [Resting EXCEPT !.pc = "error", !.cause = TRUE])
     \/ /\ failing' = failing \cup {read[t].order[1]}
        /\ SetRead(t, [Resting EXCEPT !.pc = "stalled", !.was = {read[t].order[1]}])
  /\ UNCHANGED <<links, located, withdrawn, aged, ended, lock, attempts>>

\* The engine drops the read wherever it waits, and the lock with it.
LeaveRead(t) ==
  /\ read[t].pc \in {"want", "ask", "race", "body"}
  /\ lock' = lock \ {t}
  /\ SetRead(t, Resting)
  /\ UNCHANGED <<links, located, withdrawn, aged, ended, failing, attempts>>

\* Ten minutes pass (LINK_TTL), or one (download_health_score).
Age == /\ links # 0 /\ aged = 0 /\ links' = 0 /\ aged' = aged + 1
       /\ UNCHANGED <<located, withdrawn, ended, lock, failing, attempts, read>>
Calm == /\ failing # {} /\ failing' = {}
        /\ UNCHANGED <<links, located, withdrawn, aged, ended, lock, attempts, read>>

\* The provider takes back the links it gave; to a read in its second round that is a
\* cause to fail.
Withdraw ==
  /\ withdrawn < located
  /\ withdrawn' = located /\ ended' = ended + 1
  /\ read' = [t \in Reads |-> [read[t] EXCEPT !.cause = @ \/ read[t].try = 1]]
  /\ UNCHANGED <<links, located, aged, lock, failing, attempts>>

LinksInit ==
  /\ links = 0 /\ located = 0 /\ withdrawn = 0 /\ aged = 0 /\ ended = 0 /\ lock = {}
  /\ failing = {} /\ attempts = [t \in Reads |-> 0] /\ read = [t \in Reads |-> Resting]

ReadStep(t) ==
  \/ StartRead(t) \/ Look(t) \/ LockPath(t) \/ Located(t) \/ LocateFails(t) \/ Hedge(t)
  \/ RaceLost(t) \/ Body(t) \/ LeaveRead(t)
  \/ \E i \in 1..2 : Win(t, i) \/ WinsWrongly(t, i) \/ \E refused \in BOOLEAN : Lose(t, i, refused)

LinksNext == (\E t \in Reads : ReadStep(t)) \/ Age \/ Calm \/ Withdraw
LinksSpec == LinksInit /\ [][LinksNext]_linkVars

LinksTypeOK ==
  /\ links \in 0..MaxLinks /\ located \in 0..MaxLinks /\ withdrawn \in 0..located
  /\ aged \in 0..1 /\ ended \in 0..MaxLinks /\ lock \subseteq Reads
  /\ failing \subseteq ToSet(Hosts) /\ attempts \in [Reads -> 0..MaxAttempts]
  /\ \A t \in Reads : /\ read[t].pc \in {"look", "want", "ask", "race", "body"} \cup Answers
                      /\ read[t].got \in 0..MaxLinks /\ read[t].lost \subseteq 1..2

\* However many tasks read the file, links are asked for once and then once for every
\* time they were withdrawn or grew old: nobody throws away links another task has
\* just brought, and nobody asks for what has been brought while it waited
\* (locatedownload, invalidate_links_if_same).
OneLocateForAll == located <= 1 + ended + aged

\* A read fails only for a cause: a host or the provider had trouble of its own, or
\* links were withdrawn while it ran.  Links that were withdrawn before never fail it.
ReadFailsForCause == \A t \in Reads : read[t].pc = "error" => read[t].cause

\* When a body stalled, another candidate leads the next race for the range (the
\* comment at range_attempts).
RetryLeadsElsewhere ==
  \A t \in Reads : read[t].pc = "race" /\ read[t].try = 0 => read[t].order[1] \notin read[t].was
=============================================================================
