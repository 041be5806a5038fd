---------------------------- MODULE RealtimeFeed ----------------------------
(***************************************************************************)
(* What the realtime path promises ponder: an unbroken chain of blocks on    *)
(* top of a finalized base.  Each block extends the last one; a rollback     *)
(* never reaches the base; a finalize moves the base up to a block ponder    *)
(* has already been given; a restart resumes from the base or later.        *)
(***************************************************************************)
EXTENDS RealtimeBase

VARIABLES
  base,   \* the block everything below and including is final
  chain   \* blocks given since, oldest first

feedVars == <<base, chain>>

Top == IF chain = <<>> THEN base ELSE chain[Len(chain)]

FeedInit == base = Root /\ chain = <<>>

Give ==
  /\ \E b \in Block : Extends(b, Top) /\ chain' = Append(chain, b)
  /\ UNCHANGED base

RollBack ==
  /\ \E n \in 0..(Len(chain) - 1) : chain' = SubSeq(chain, 1, n)
  /\ UNCHANGED base

FinalizeUpTo ==
  \E n \in 1..Len(chain) :
    /\ base' = chain[n]
    /\ chain' = SubSeq(chain, n + 1, Len(chain))

Recover ==
  /\ chain' = <<>>
  /\ \E b \in Block : base \in Ancestry[b] /\ base' = b

FeedNext == Give \/ RollBack \/ FinalizeUpTo \/ Recover

FeedSpec == FeedInit /\ [][FeedNext]_feedVars
=============================================================================
