------------------------------ MODULE Slashing ------------------------------
(***************************************************************************)
(* Downtime and equivocation in x/slashing and x/evidence: the ring of     *)
(* missed blocks of each validator with its counter, its resizing when the *)
(* window parameter changes, jailing, unjailing and tombstoning.           *)
(*                                                                         *)
(* The ring is the set of its indices that are set.  Validators enter and  *)
(* leave the validator set as x/staking decides; the votes of a block are  *)
(* those of an earlier validator set, so a validator that was jailed is    *)
(* still asked for a few signatures.                                       *)
(***************************************************************************)
EXTENDS Integers, Sequences, FiniteSets

CONSTANTS
    Validators,
    Windows,        \* values of the SignedBlocksWindow parameter
    MinSigned,      \* [Windows -> Nat]: MinSignedPerWindow
    JailDuration,   \* DowntimeJailDuration, in blocks
    GrowAnywhere,   \* the window may grow while a ring's last index is next
    MaxHeight       \* bound on the chain

ASSUME SlashingAssumption ==
    /\ Windows \subseteq Nat \ {0}
    /\ MinSigned \in [Windows -> Nat]
    /\ \A w \in Windows : MinSigned[w] <= w
    /\ JailDuration \in Nat
    /\ GrowAnywhere \in BOOLEAN
    /\ MaxHeight \in Nat

\* types.DoubleSignJailEndTime.
Forever == MaxHeight + JailDuration + 1

VARIABLES
    height,
    window,     \* the parameter
    info,       \* [Validators -> ValidatorSigningInfo]
    ring,       \* [Validators -> ValidatorMissedBlockArray]
    bonded,     \* x/staking: the validators in the set
    jailed,     \* x/staking: the jailed ones
    votes,      \* the sets that vote in the next blocks
    hist,       \* history: the latest votes of each validator, newest first, and
                \* whether it was slashed for them
    joined      \* history: the height of its first bonding or latest unjailing

chain == <<height, window>>
vars == <<chain, info, ring, bonded, jailed, votes, hist, joined>>

\* A signing info or a ring that is not in the store; a new signing info.
NoInfo == [found |-> FALSE, start |-> 0, offset |-> 0, until |-> 0, tombstoned |-> FALSE, counter |-> 0]
NewInfo == [found |-> TRUE, start |-> height, offset |-> 0, until |-> 0, tombstoned |-> FALSE, counter |-> 0]
NoRing == [found |-> FALSE, size |-> 0, missed |-> {}]

Init ==
    /\ height = 0
    /\ window \in Windows
    /\ info = [v \in Validators |-> NoInfo]
    /\ ring = [v \in Validators |-> NoRing]
    /\ bonded = {}
    /\ jailed = {}
    /\ votes = <<{}, {}>>
    /\ hist = [v \in Validators |-> [votes |-> <<>>, spent |-> FALSE]]
    /\ joined = [v \in Validators |-> 0]

-----------------------------------------------------------------------------
(* The ring.                                                               *)

\* An array of the window's size in which these bits are set; a signing info
\* with another counter and offset.
WithBits(bits) == [found |-> TRUE, size |-> window, missed |-> bits]

At(i, counter, offset) == [i EXCEPT !.counter = counter, !.offset = offset]

\* ResizeMissedBlockArray: a larger window gets zeros where the oldest votes
\* are, a smaller one starts afresh.  The tail is copied only if index + 1 is
\* below the old size.
Grown(r, index) ==
    {j \in r.missed : j < index} \cup
    (IF index + 1 < r.size THEN {j + (window - r.size) : j \in {l \in r.missed : l >= index}} ELSE {})

\* Faulty variant: when the window shrinks the counter is kept.
ResizeKeepCounter(r, i) ==
    IF r.size < window
    THEN [ring |-> WithBits(Grown(r, i.offset)), info |-> i]
    ELSE [ring |-> WithBits({}), info |-> [i EXCEPT !.offset = 0]]

\* Faulty variant: a ring that grows gets its zeros at the end.
ResizeAppend(r, i) ==
    IF r.size < window
    THEN [ring |-> WithBits(r.missed), info |-> i]
    ELSE [ring |-> WithBits({}),
          info |-> At(i, 0, 0)]

ResizeMissedBlockArray(r, i) ==
    IF r.size < window
    THEN [ring |-> WithBits(Grown(r, i.offset)), info |-> i]
    ELSE [ring |-> WithBits({}),
          info |-> At(i, 0, 0)]

\* The ring and the info that a vote of v starts from.
Sized(v) ==
    IF ~ring[v].found
    THEN [ring |-> WithBits({}), info |-> info[v]]
    ELSE IF ring[v].size # window THEN ResizeMissedBlockArray(ring[v], info[v])
    ELSE [ring |-> ring[v], info |-> info[v]]

\* HandleValidatorSignatureConcurrent up to the check: the vote's bit replaces
\* the oldest one, the counter follows, the offset moves on.
Counted(v, missed) ==
    LET s == Sized(v)
        index == s.info.offset
        previous == index \in s.ring.missed
    IN [ring |-> WithBits(IF missed THEN s.ring.missed \cup {index} ELSE s.ring.missed \ {index}),
        info |-> At(s.info, IF ~previous /\ missed THEN s.info.counter + 1
                            ELSE IF previous /\ ~missed THEN s.info.counter - 1 ELSE s.info.counter,
                    (index + 1) % window)]

MaxMissed == window - MinSigned[window]

\* Faulty variant: a validator may miss one block less.
ShouldSlashEarly(v, i, h) ==
    /\ h > i.start + window
    /\ i.counter >= MaxMissed
    /\ v \notin jailed

\* Downtime is confirmed, at block h.
ShouldSlash(v, i, h) ==
    /\ h > i.start + window
    /\ i.counter > MaxMissed
    /\ v \notin jailed

-----------------------------------------------------------------------------
(* The block.                                                              *)

\* The reference: the latest votes, as many as the window, since the validator
\* was slashed or the window shrank.
Latest(v, missed) ==
    LET kept == IF hist[v].spent \/ (ring[v].found /\ ring[v].size > window) THEN <<>>
                ELSE hist[v].votes
        now == <<missed>> \o kept
    IN IF Len(now) > window THEN SubSeq(now, 1, window) ELSE now

\* BeginBlocker: every vote is evaluated on the state before the block, then
\* the results are written and the offenders slashed, jailed and reset.  At its
\* end the block hands the validator set on.
BeginBlock(absent) ==
    LET h == height + 1
        voters == Head(votes)
        c == [v \in voters |-> Counted(v, v \in absent)]
        slashed == {v \in voters : ShouldSlash(v, c[v].info, h)}
    IN /\ height < MaxHeight
       /\ absent \subseteq voters
       /\ height' = h
       /\ ring' = [v \in Validators |-> IF v \in slashed THEN NoRing
                                        ELSE IF v \in voters THEN c[v].ring ELSE ring[v]]
       /\ info' = [v \in Validators |->
              IF v \in slashed THEN [At(c[v].info, 0, 0) EXCEPT !.until = h + JailDuration]
              ELSE IF v \in voters THEN c[v].info ELSE info[v]]
       /\ jailed' = jailed \cup slashed
       /\ hist' = [v \in Validators |->
              IF v \in voters THEN [votes |-> Latest(v, v \in absent), spent |-> v \in slashed]
              ELSE hist[v]]
       /\ votes' = <<votes[2], bonded>>
       /\ bonded' = bonded \ jailed'
       /\ UNCHANGED <<window, joined>>

\* Faulty variant: the validator is tombstoned and left in the set.
EquivocationNoJail(v) ==
    /\ info[v].found /\ ~info[v].tombstoned
    /\ info' = [info EXCEPT ![v].until = Forever, ![v].tombstoned = TRUE]
    /\ UNCHANGED <<chain, ring, jailed, bonded, votes, hist, joined>>

\* HandleEquivocationEvidence for a validator that is not unbonded.
HandleEquivocation(v) ==
    /\ info[v].found /\ ~info[v].tombstoned
    /\ jailed' = jailed \cup {v}
    /\ info' = [info EXCEPT ![v].until = Forever, ![v].tombstoned = TRUE]
    /\ bonded' = bonded \ {v}
    /\ UNCHANGED <<chain, ring, votes, hist, joined>>

Unjail(v) ==
    /\ v \in jailed
    /\ info[v].found => ~info[v].tombstoned /\ height >= info[v].until
    /\ jailed' = jailed \ {v}
    /\ joined' = [joined EXCEPT ![v] = height]
    /\ UNCHANGED <<chain, info, ring, bonded, votes, hist>>

-----------------------------------------------------------------------------
(* x/staking and the parameters.                                           *)

\* A validator enters the set, with the hook AfterValidatorBonded.
Bond(v) ==
    /\ v \notin bonded \cup jailed
    /\ bonded' = bonded \cup {v}
    /\ joined' = IF info[v].found THEN joined ELSE [joined EXCEPT ![v] = height]
    /\ info' = IF info[v].found THEN info
               ELSE [info EXCEPT ![v] = NewInfo]
    /\ UNCHANGED <<chain, ring, jailed, votes, hist>>

\* Another validator has more power.
Unbond(v) ==
    /\ v \in bonded
    /\ bonded' = bonded \ {v}
    /\ UNCHANGED <<chain, info, ring, jailed, votes, hist, joined>>

\* x/staking jails a validator whose self-delegation is too small.
JailForSelfBond(v) ==
    /\ v \notin jailed
    /\ jailed' = jailed \cup {v}
    /\ bonded' = bonded \ {v}
    /\ UNCHANGED <<chain, info, ring, votes, hist, joined>>

\* A ring that would lose its last bit if it grew now.
AtEdge(v, w) ==
    /\ ring[v].found /\ ring[v].size < w
    /\ info[v].offset + 1 = ring[v].size /\ info[v].offset \in ring[v].missed

ChangeWindow(w) ==
    /\ window' = w
    /\ GrowAnywhere \/ \A v \in Validators : ~AtEdge(v, w)
    /\ UNCHANGED <<height, info, ring, bonded, jailed, votes, hist, joined>>

Next ==
    \/ \E absent \in SUBSET Validators : BeginBlock(absent)
    \/ \E v \in Validators : HandleEquivocation(v)
    \/ \E v \in Validators : Unjail(v)
    \/ \E v \in Validators : Bond(v)
    \/ \E v \in Validators : Unbond(v)
    \/ \E v \in Validators : JailForSelfBond(v)
    \/ \E w \in Windows : ChangeWindow(w)

Spec == Init /\ [][Next]_vars

-----------------------------------------------------------------------------
(* Properties.                                                             *)

Misses(h) == {j \in 1..Len(h) : h[j]}

InfoType == [found : BOOLEAN, start : Nat, offset : Nat, until : Nat, tombstoned : BOOLEAN, counter : Int]
RingType == [found : BOOLEAN, size : Nat, missed : SUBSET Nat]

\* Well-typedness; a stored ring has a size that was a window, its offset and
\* its bits are inside it.
TypeOK ==
    /\ height \in Nat
    /\ window \in Windows
    /\ info \in [Validators -> InfoType]
    /\ ring \in [Validators -> RingType]
    /\ bonded \subseteq Validators
    /\ jailed \subseteq Validators
    /\ votes \in Seq(SUBSET Validators) /\ Len(votes) = 2
    /\ \A v \in Validators :
          IF ring[v].found
          THEN ring[v].size \in Windows /\ info[v].offset < ring[v].size
               /\ ring[v].missed \subseteq 0..(ring[v].size - 1)
          ELSE ring[v].missed = {} /\ info[v].offset = 0

\* MissedBlocksCounter is the number of bits that are set in the ring, through
\* any sequence of votes, slashes, absences from the set and changes of the
\* window.
CounterIsSum == \A v \in Validators : info[v].counter = Cardinality(ring[v].missed)

\* The bits of the ring are the latest votes in their order, so the oldest one
\* is the next to be replaced.
RingIsHistory ==
    \A v \in Validators : ring[v].found =>
        ring[v].missed = {(info[v].offset - i) % ring[v].size :
                             i \in Misses(hist[v].votes)}

\* BeginBlocker slashes for downtime only a validator that has missed more of
\* its latest votes, as many as the window, than are allowed, and has been
\* known for a window; misses that it was slashed for do not count again.
SlashedForMisses ==
    [][\A v \in Validators : (info'[v].until > info[v].until /\ ~info'[v].tombstoned) =>
           /\ Cardinality(Misses(hist'[v].votes)) > MaxMissed
           /\ height' > info[v].start + window]_vars

\* A tombstoned validator stays jailed, so that it is never in the set again.
TombstonedStaysJailed ==
    \A v \in Validators : info[v].tombstoned => v \in jailed /\ v \notin bonded

\* The start height is the height at which the validator was first a candidate
\* or came back from jail.
StartHeightIsRejoining == \A v \in bonded : info[v].start = joined[v]

=============================================================================
