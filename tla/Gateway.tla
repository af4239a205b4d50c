------------------------------ MODULE Gateway ------------------------------
(***************************************************************************)
(* What guards the server against the same thing happening twice: the      *)
(* single-use challenges of an upgrade (ChallengeStore in                  *)
(* src/src/server/lib/auth.ts) and the replay cache of command ids         *)
(* (CommandReplayCache in src/src/server/lib/replay.ts).  Both are bounded *)
(* maps whose entries expire and whose oldest entry is evicted when they   *)
(* are full.  A map is a set of entries, numbered in the order of their    *)
(* insertion; the clock never goes back.                                   *)
(*                                                                         *)
(* Definitions whose name ends in _Faulty... are deliberate errors: they   *)
(* stand in for the definition after them to show that a property notices. *)
(***************************************************************************)
EXTENDS Integers, Sequences, FiniteSets

CONSTANTS
    Challenge,      \* challenge ids
    ChallengeTtl, MaxChallenges,   \* of ChallengeStore
    Command,        \* clientId:commandId keys
    ReplayTtl, MaxEntries,         \* of CommandReplayCache
    MaxTime,        \* bound of the clock
    MaxAccepted     \* bound: accepted commands

ASSUME GatewayAssumption ==
    /\ ChallengeTtl \in Nat /\ ReplayTtl \in Nat
    /\ MaxChallenges \in Nat \ {0} /\ MaxEntries \in Nat \ {0}

VARIABLES
    now,        \* the clock
    issued,     \* ids handed out by issue(), which never repeats one
    challenges, \* pending of the challenge store
    used,       \* this.used
    consumed,   \* history: the ids taken out of them, in order
    opened,     \* history: those a proof was right for, in order
    seen,       \* this.seen of the replay cache
    accepted    \* every command accepted so far: key and time

challengeVars == <<issued, challenges, used, consumed, opened>>
replayVars == <<seen, accepted>>
gatewayVars == <<now, challengeVars, replayVars>>

GatewayInit ==
    /\ now = 0
    /\ issued = {} /\ challenges = {} /\ used = {}
    /\ consumed = <<>> /\ opened = <<>>
    /\ seen = {} /\ accepted = <<>>

Tick == now < MaxTime /\ now' = now + 1 /\ UNCHANGED <<challengeVars, replayVars>>

-----------------------------------------------------------------------------
Keys(map) == {e.key : e \in map}

\* sweep(): the entries that were to be kept at least until now.
Live(map, grace) == {e \in map : e.until + grace >= now}

\* The oldest entries are deleted while the map has `max` entries or more.
Evict(map, max) == {e \in map : Cardinality({f \in map : f.nr > e.nr}) < max - 1}

Entry(key, until, nr) == [key |-> key, until |-> until, nr |-> nr]

-----------------------------------------------------------------------------
(* The challenge store.                                                    *)

\* issue().
Issue ==
    \E c \in Challenge \ issued :
        /\ issued' = issued \cup {c}
        /\ challenges' = Evict(Live(challenges, ChallengeTtl), MaxChallenges)
                        \cup {Entry(c, now + ChallengeTtl, Cardinality(issued))}
        /\ used' = Live(used, 0)
        /\ UNCHANGED <<now, consumed, opened, replayVars>>

Consume_FaultyOnlyIfValid(entry, valid) ==
    /\ challenges' = IF valid THEN Live(challenges, ChallengeTtl)
                  ELSE Live(challenges, ChallengeTtl) \ {entry}
    /\ used' = Live(used, 0)
    /\ consumed' = Append(consumed, entry.key)

\* A challenge is taken out of the map and remembered as used, valid or not.
Consume(entry, valid) ==
    /\ challenges' = Live(challenges, ChallengeTtl) \ {entry}
    /\ used' = Evict(Live(used, 0), MaxChallenges)
                 \cup {Entry(entry.key, entry.until + ChallengeTtl, Len(consumed))}
    /\ consumed' = Append(consumed, entry.key)

Valid_FaultyNoExpiry(entry, proof) == proof

\* The proof is right and the challenge has not expired.
Valid(entry, proof) == proof /\ entry.until >= now

\* verify() of a challenge that is pending, with a proof that is right or wrong.
Verify(entry, proof) ==
    /\ entry.key \notin Keys(Live(used, 0))
    /\ Consume(entry, Valid(entry, proof))
    /\ opened' = IF Valid(entry, proof) THEN Append(opened, entry.key) ELSE opened
    /\ UNCHANGED <<now, issued, replayVars>>

\* verify() of an id that was used, or is unknown: challenge_replayed or
\* authentication_failed.
Refuse(c) ==
    /\ \/ c \in Keys(Live(used, 0))
       \/ c \notin Keys(Live(challenges, ChallengeTtl))
    /\ challenges' = Live(challenges, ChallengeTtl) /\ used' = Live(used, 0)
    /\ UNCHANGED <<now, issued, consumed, opened, replayVars>>

-----------------------------------------------------------------------------
(* The replay cache.                                                       *)

Remember_FaultyFewer(k) ==
    seen' = Evict(Live(seen, 0), MaxEntries - 1)
              \cup {Entry(k, now + ReplayTtl, Len(accepted) + 1)}

Remember_FaultyNoEviction(k) ==
    seen' = Live(seen, 0) \cup {Entry(k, now + ReplayTtl, Len(accepted) + 1)}

Remember(k) ==
    seen' = Evict(Live(seen, 0), MaxEntries)
              \cup {Entry(k, now + ReplayTtl, Len(accepted) + 1)}

\* accept() of a key that is not in the cache.
Accept(k) ==
    /\ k \notin Keys(Live(seen, 0)) /\ Len(accepted) < MaxAccepted
    /\ Remember(k)
    /\ accepted' = Append(accepted, [key |-> k, at |-> now])
    /\ UNCHANGED <<now, challengeVars>>

\* accept() of one that is.
Reject(k) ==
    /\ k \in Keys(Live(seen, 0))
    /\ seen' = Live(seen, 0)
    /\ UNCHANGED <<now, challengeVars, accepted>>

GatewayNext ==
    \/ Tick \/ Issue
    \/ \E entry \in Live(challenges, ChallengeTtl), proof \in BOOLEAN : Verify(entry, proof)
    \/ \E c \in Challenge : Refuse(c)
    \/ \E k \in Command : Accept(k) \/ Reject(k)

GatewaySpec == GatewayInit /\ [][GatewayNext]_gatewayVars

-----------------------------------------------------------------------------
AcceptedCommand == [key : Command, at : Nat]
EntryType(Key) == [key : Key, until : Nat, nr : Nat]

GatewayTypeOK ==
    /\ now \in Nat
    /\ issued \subseteq Challenge
    /\ challenges \subseteq EntryType(Challenge) /\ used \subseteq EntryType(Challenge)
    /\ consumed \in Seq(Challenge) /\ opened \in Seq(Challenge)
    /\ seen \subseteq EntryType(Command)
    /\ accepted \in Seq(AcceptedCommand)

\* The maps are bounded by their limits and hold at most one entry for a key.
Bounded ==
    /\ GatewayTypeOK
    /\ Cardinality(challenges) <= MaxChallenges
    /\ Cardinality(Keys(challenges)) = Cardinality(challenges)
    /\ Cardinality(used) <= MaxChallenges /\ Cardinality(Keys(used)) = Cardinality(used)
    /\ Cardinality(seen) <= MaxEntries /\ Cardinality(Keys(seen)) = Cardinality(seen)

\* A challenge opens at most one connection, also after the record of its use was
\* evicted or has expired, and only one that was issued (ChallengeStore.verify).
SingleUse ==
    /\ \A i, j \in DOMAIN opened : opened[i] = opened[j] => i = j
    /\ \A i \in DOMAIN opened : opened[i] \in issued

\* A connection opens only by the first try of a challenge, right or wrong, and only
\* within its lifetime, although the store keeps it longer (ChallengeStore.verify).
FirstTryInTime ==
    [][Len(opened') > Len(opened) =>
        LET c == opened'[Len(opened')]
        IN  /\ \A i \in DOMAIN consumed : consumed[i] # c
            /\ \E entry \in challenges : entry.key = c /\ now <= entry.until]_gatewayVars

\* A key is accepted again only after its time to live, or when so many other commands
\* came after it that the cache had to forget it (CommandReplayCache.accept).
NoEarlyDuplicate ==
    \A i, j \in DOMAIN accepted :
        i < j /\ accepted[i].key = accepted[j].key =>
            \/ accepted[j].at > accepted[i].at + ReplayTtl
            \/ j - i > MaxEntries
=============================================================================
