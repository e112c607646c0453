----------------------------- MODULE MultiMBox -----------------------------
(***************************************************************************)
(* The broadcast mailbox that joins all the threads of SoDaServer:         *)
(* SoDa::MultiMBox<T> and SoDa::MBoxMessage of src/src/MultiMBox.hxx.      *)
(*                                                                         *)
(* put() pushes one message on each subscriber's own queue, under that     *)
(* subscriber's mutex only, so posts of two producers interleave queue by  *)
(* queue.  free() reads and decrements reader_count with no lock and no    *)
(* atomic type: a read and a decrement are separate steps here, and the    *)
(* decrement is a load and a store.  The last reader gives the storage     *)
(* back, to free_list (keep_freelist) or to the heap (delete).             *)
(***************************************************************************)
EXTENDS Integers, Sequences, FiniteSets

CONSTANTS NumSubs,       \* subscriber_count once every thread has subscribed
          Producers,     \* threads that put()
          Msgs,          \* storage: a bound on the messages alive at once
          NoMsg,         \* a null pointer
          KeepFreelist   \* constructor argument _keep_freelist

ASSUME MBoxAssumption ==
  /\ NumSubs \in Nat \ {0}
  /\ NoMsg \notin Msgs
  /\ KeepFreelist \in BOOLEAN

Subs == 0 .. NumSubs - 1   \* ids in the order subscribe() hands them out

VARIABLES
  posted_list,   \* per subscriber, the queue of messages not yet taken
  reader_count,  \* per message
  free_list,     \* storage waiting to be recycled by alloc()
  heap,          \* storage not allocated
  ppc, pmsg, pnext,   \* producer: phase, its message, next queue to push on
  rpc, rmsg, rtmp,    \* reader: phase, its message, the count it loaded
  poster         \* auxiliary: who last posted a message (read by no action)

pvars == <<ppc, pmsg, pnext>>
rvars == <<rpc, rmsg, rtmp>>
vars == <<posted_list, reader_count, free_list, heap, pvars, rvars, poster>>

PhasesP == {"idle", "filling", "posting"}
PhasesR == {"idle", "using", "dec", "store", "recycle"}

Init ==
  /\ posted_list = [s \in Subs |-> <<>>]
  /\ reader_count = [m \in Msgs |-> 0]
  /\ free_list = <<>>
  /\ heap = Msgs
  /\ ppc = [p \in Producers |-> "idle"]
  /\ pmsg = [p \in Producers |-> NoMsg]
  /\ pnext = [p \in Producers |-> 0]
  /\ rpc = [s \in Subs |-> "idle"]
  /\ rmsg = [s \in Subs |-> NoMsg]
  /\ rtmp = [s \in Subs |-> 0]
  /\ poster = [m \in Msgs |-> NoMsg]

-----------------------------------------------------------------------------
(* Producers: alloc() or new, fill the message, put().                     *)

Fill(p, m) ==
  /\ ppc' = [ppc EXCEPT ![p] = "filling"]
  /\ pmsg' = [pmsg EXCEPT ![p] = m]
  /\ UNCHANGED <<pnext, posted_list, reader_count, rvars, poster>>

\* alloc() finds recycled storage.
AllocPooled(p) ==
  /\ ppc[p] = "idle"
  /\ KeepFreelist
  /\ free_list # <<>>
  /\ free_list' = Tail(free_list)
  /\ Fill(p, Head(free_list))
  /\ UNCHANGED heap

\* alloc() returns NULL, or the mailbox keeps no free list: the caller news one.
AllocNew(p, m) ==
  /\ ppc[p] = "idle"
  /\ KeepFreelist => free_list = <<>>
  /\ m \in heap
  /\ heap' = heap \ {m}
  /\ Fill(p, m)
  /\ UNCHANGED free_list

\* Slip: the count leaves out one reader, as if the poster did not subscribe.
BeginPutShort(p) ==
  /\ ppc[p] = "filling"
  /\ reader_count' = [reader_count EXCEPT ![pmsg[p]] = NumSubs - 1]
  /\ poster' = [poster EXCEPT ![pmsg[p]] = p]
  /\ ppc' = [ppc EXCEPT ![p] = "posting"]
  /\ pnext' = [pnext EXCEPT ![p] = 0]
  /\ UNCHANGED <<pmsg, posted_list, free_list, heap, rvars>>

\* Slip: each push counts its own reader.
BeginPutUncounted(p) ==
  /\ ppc[p] = "filling"
  /\ reader_count' = [reader_count EXCEPT ![pmsg[p]] = @ + NumSubs + 1]
  /\ poster' = [poster EXCEPT ![pmsg[p]] = p]
  /\ ppc' = [ppc EXCEPT ![p] = "posting"]
  /\ pnext' = [pnext EXCEPT ![p] = 0]
  /\ UNCHANGED <<pmsg, posted_list, free_list, heap, rvars>>

\* put(): setReaderCount(subscriber_count), before the first push.
BeginPut(p) ==
  /\ ppc[p] = "filling"
  /\ reader_count' = [reader_count EXCEPT ![pmsg[p]] = NumSubs]
  /\ poster' = [poster EXCEPT ![pmsg[p]] = p]
  /\ ppc' = [ppc EXCEPT ![p] = "posting"]
  /\ pnext' = [pnext EXCEPT ![p] = 0]
  /\ UNCHANGED <<pmsg, posted_list, free_list, heap, rvars>>

\* Slip: the loop stops one subscriber early.
PostNextShort(p) ==
  /\ ppc[p] = "posting"
  /\ posted_list' = [posted_list EXCEPT ![pnext[p]] = Append(@, pmsg[p])]
  /\ IF pnext[p] + 2 >= NumSubs
       THEN /\ ppc' = [ppc EXCEPT ![p] = "idle"]
            /\ pmsg' = [pmsg EXCEPT ![p] = NoMsg]
            /\ pnext' = [pnext EXCEPT ![p] = 0]
       ELSE /\ pnext' = [pnext EXCEPT ![p] = @ + 1]
            /\ UNCHANGED <<ppc, pmsg>>
  /\ UNCHANGED <<reader_count, free_list, heap, rvars, poster>>

\* One turn of put()'s loop, under one subscriber's post_mutex.
PostNext(p) ==
  /\ ppc[p] = "posting"
  /\ posted_list' = [posted_list EXCEPT ![pnext[p]] = Append(@, pmsg[p])]
  /\ IF pnext[p] + 1 = NumSubs
       THEN /\ ppc' = [ppc EXCEPT ![p] = "idle"]
            /\ pmsg' = [pmsg EXCEPT ![p] = NoMsg]
            /\ pnext' = [pnext EXCEPT ![p] = 0]
       ELSE /\ pnext' = [pnext EXCEPT ![p] = @ + 1]
            /\ UNCHANGED <<ppc, pmsg>>
  /\ UNCHANGED <<reader_count, free_list, heap, rvars, poster>>

-----------------------------------------------------------------------------
(* Readers: get(), use the message, free() it.                             *)

\* get(): pop under the subscriber's post_mutex.
Get(s) ==
  /\ rpc[s] = "idle"
  /\ posted_list[s] # <<>>
  /\ rmsg' = [rmsg EXCEPT ![s] = Head(posted_list[s])]
  /\ posted_list' = [posted_list EXCEPT ![s] = Tail(@)]
  /\ rpc' = [rpc EXCEPT ![s] = "using"]
  /\ UNCHANGED <<rtmp, reader_count, free_list, heap, pvars, poster>>

\* Slip: the last reader is taken to be the one that finds nobody left.
ReadyToDieAtZero(s) ==
  /\ rpc[s] = "using"
  /\ rpc' = [rpc EXCEPT ![s] =
               IF reader_count[rmsg[s]] = 0 THEN "recycle" ELSE "dec"]
  /\ UNCHANGED <<rmsg, rtmp, posted_list, reader_count, free_list, heap,
                 pvars, poster>>

\* free(): readyToDie() reads reader_count with no lock.
ReadyToDie(s) ==
  /\ rpc[s] = "using"
  /\ rpc' = [rpc EXCEPT ![s] =
               IF reader_count[rmsg[s]] = 1 THEN "recycle" ELSE "dec"]
  /\ UNCHANGED <<rmsg, rtmp, posted_list, reader_count, free_list, heap,
                 pvars, poster>>

\* decReaderCount(): reader_count-- is a load ...
DecLoad(s) ==
  /\ rpc[s] = "dec"
  /\ rtmp' = [rtmp EXCEPT ![s] = reader_count[rmsg[s]]]
  /\ rpc' = [rpc EXCEPT ![s] = "store"]
  /\ UNCHANGED <<rmsg, posted_list, reader_count, free_list, heap, pvars,
                 poster>>

LetGo(s) ==
  /\ rpc' = [rpc EXCEPT ![s] = "idle"]
  /\ rmsg' = [rmsg EXCEPT ![s] = NoMsg]
  /\ rtmp' = [rtmp EXCEPT ![s] = 0]
  /\ UNCHANGED <<posted_list, pvars, poster>>

\* ... and a store.
DecStore(s) ==
  /\ rpc[s] = "store"
  /\ reader_count' = [reader_count EXCEPT ![rmsg[s]] = rtmp[s] - 1]
  /\ LetGo(s)
  /\ UNCHANGED <<free_list, heap>>

\* MBoxMessage::free(free_list), under free_mutex and rc_mutex: it looks again.
RecycleBuf(s) ==
  /\ rpc[s] = "recycle"
  /\ KeepFreelist
  /\ IF reader_count[rmsg[s]] = 1
       THEN /\ reader_count' = [reader_count EXCEPT ![rmsg[s]] = 0]
            /\ free_list' = Append(free_list, rmsg[s])
       ELSE /\ reader_count' = [reader_count EXCEPT ![rmsg[s]] = @ - 1]
            /\ UNCHANGED free_list
  /\ LetGo(s)
  /\ UNCHANGED heap

\* delete m.
DeleteMsg(s) ==
  /\ rpc[s] = "recycle"
  /\ ~KeepFreelist
  /\ heap' = heap \cup {rmsg[s]}
  /\ LetGo(s)
  /\ UNCHANGED <<reader_count, free_list>>

ProducerStep(p) ==
  \/ AllocPooled(p)
  \/ \E m \in Msgs : AllocNew(p, m)
  \/ BeginPut(p)
  \/ PostNext(p)

ReaderStep(s) ==
  \/ Get(s)
  \/ ReadyToDie(s)
  \/ DecLoad(s)
  \/ DecStore(s)
  \/ RecycleBuf(s)
  \/ DeleteMsg(s)

Next == \/ \E p \in Producers : ProducerStep(p)
        \/ \E s \in Subs : ReaderStep(s)

Spec == Init /\ [][Next]_vars

\* Every reader's loop keeps polling and frees what it got, and put() is not
\* abandoned half way; nothing obliges a producer to produce.
Fairness == /\ \A s \in Subs : WF_vars(ReaderStep(s))
            /\ \A p \in Producers : WF_vars(BeginPut(p) \/ PostNext(p))

FairSpec == Spec /\ Fairness

-----------------------------------------------------------------------------
(* Who still has a claim on a message.                                     *)

Queued(s, m) == \E i \in 1 .. Len(posted_list[s]) : posted_list[s][i] = m
Held(s, m) == rpc[s] # "idle" /\ rmsg[s] = m
Coming(s, m) == \E p \in Producers : ppc[p] = "posting" /\ pmsg[p] = m /\ pnext[p] <= s
Claims(s, m) == Queued(s, m) \/ Held(s, m) \/ Coming(s, m)
Owners(m) == {s \in Subs : Claims(s, m)}

Filling(m) == \E p \in Producers : ppc[p] = "filling" /\ pmsg[p] = m
Posting(m) == \E p \in Producers : ppc[p] = "posting" /\ pmsg[p] = m
Pooled(m) == \E i \in 1 .. Len(free_list) : free_list[i] = m
Reclaimed(m) == Pooled(m) \/ m \in heap

\* The types of the mailbox's state; reader_count is unsigned and never wraps.
TypeOK ==
  /\ posted_list \in [Subs -> Seq(Msgs)]
  /\ reader_count \in [Msgs -> 0 .. NumSubs]
  /\ free_list \in Seq(Msgs)
  /\ heap \in SUBSET Msgs
  /\ ppc \in [Producers -> PhasesP]
  /\ pmsg \in [Producers -> Msgs \cup {NoMsg}]
  /\ \A p \in Producers : ppc[p] = "idle" <=> pmsg[p] = NoMsg
  /\ pnext \in [Producers -> Subs]
  /\ rpc \in [Subs -> PhasesR]
  /\ rmsg \in [Subs -> Msgs \cup {NoMsg}]
  /\ \A s \in Subs : rpc[s] = "idle" <=> rmsg[s] = NoMsg
  /\ rtmp \in [Subs -> 0 .. NumSubs]

\* However the unlocked reads and decrements of reader_count interleave, storage
\* that is on the free list, back on the heap, or being refilled by a producer
\* is in no subscriber's queue and in no reader's hands, and it is given back
\* once: never use after free, never freed twice.
SafeRecycle ==
  /\ \A m \in Msgs : Reclaimed(m) \/ Filling(m) => ~Posting(m) /\ \A s \in Subs : ~Claims(s, m)
  /\ \A m \in Msgs : Filling(m) => ~Reclaimed(m)
  /\ \A i, j \in 1 .. Len(free_list) : free_list[i] = free_list[j] => i = j
  /\ \A i \in 1 .. Len(free_list) : free_list[i] \notin heap

\* No storage is lost: a message nobody has a claim on has been given back.
\* It holds of a mailbox with one subscriber.  With two, both readers can see a
\* count other than 1 before either stores its decrement, and neither frees.
NothingLost ==
  \A m \in Msgs : Reclaimed(m) \/ Filling(m) \/ Posting(m) \/ Owners(m) # {}

\* A posted message is in the end given back (one subscriber).
EventuallyReclaimed ==
  \A m \in Msgs : Posting(m) ~> Reclaimed(m)

\* x stands before m in the queue of s, or m has yet to be pushed on it.
Before(s, x, m) ==
  \/ \E i, j \in 1 .. Len(posted_list[s]) :
       i < j /\ posted_list[s][i] = x /\ posted_list[s][j] = m
  \/ Queued(s, x) /\ Coming(s, m)

\* What p has posted and s has yet to take, and the order in which s must.
Pending(p, s) == {m \in Msgs : poster[m] = p /\ (Queued(s, m) \/ Coming(s, m))}
InOrder(s) == {e \in Msgs \X Msgs : poster[e[1]] = poster[e[2]] /\ Before(s, e[1], e[2])}

\* What the mailbox promises: per-producer order, once to each subscriber,
\* storage claimed until the last subscriber lets go.
Promise ==
  INSTANCE MailboxPromise WITH
    pending <- [p \in Producers |-> [s \in Subs |-> Pending(p, s)]],
    order <- [s \in Subs |-> InOrder(s)],
    claim <- [m \in Msgs |-> Owners(m)],
    holding <- rmsg

\* The mailbox implements that promise.
ImplementsPromise == Promise!Spec
=============================================================================
