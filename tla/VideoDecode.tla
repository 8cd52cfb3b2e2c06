---------------------------- MODULE VideoDecode ----------------------------
(***************************************************************************)
(* Reading video: Dataset.decode_video gives the clips of a batch to the   *)
(* threads of rayon, and each is decoded by VideoCodec::decode, from a     *)
(* temporary file of its own in the directory every process shares.        *)
(*                                                                         *)
(* A clip is a number of frames its container reports, which may be zero   *)
(* or wrong, and a number of frames the decoder gives.  A decoder holds    *)
(* frames back for as long as it likes until it is told the end.  A frame  *)
(* is its number in the clip; pixels and their size are left out.          *)
(***************************************************************************)
EXTENDS FrameSampling, FiniteSets

CONSTANTS
  Threads, Procs,
  Placements,    \* how threads are placed on processes, in [Threads -> Procs]
  Clips,         \* the videos of the dataset
  NoClip,        \* an absent modality, or a file that is no video
  Reported,      \* per clip: stream.frames()
  Decodable,     \* per clip: the frames it has
  Batches,       \* what callers read: per position a clip or NoClip
  Requests,      \* num_frames and sampling of a VideoConfig
  Faults,        \* what may fail, a subset of FaultKinds
  MaxCalls,      \* bound: batches
  MaxFaults      \* bound: failures and crashes

FaultKinds == {"store", "disk", "codec", "crash"}
Request == [num : Nat, sampling : Samplings]

ASSUME VideoAssumption ==
  /\ Placements \subseteq [Threads -> Procs]
  /\ NoClip \notin Clips
  /\ Reported \in [Clips -> Nat] /\ Decodable \in [Clips -> Nat]
  /\ Batches \subseteq Seq(Clips \cup {NoClip}) /\ Requests \subseteq Request
  /\ Faults \subseteq FaultKinds /\ MaxCalls \in Nat /\ MaxFaults \in Nat

VARIABLES
  proc,     \* the process of each thread
  batch,    \* per process: its call of decode_video, see NoBatch
  seq,      \* per process: the counter SEQ
  th,       \* per thread: its call of decode, see Idle
  temp,     \* the temporary files: a function from paths to what they hold
  litter,   \* history: paths whose write failed, or whose process died
  calls, faults    \* bounded by MaxCalls and MaxFaults

vars == <<proc, batch, seq, th, temp, litter, calls, faults>>
count == <<calls, faults>>
-----------------------------------------------------------------------------
Pending == [kind |-> "pending", clip |-> NoClip, frames |-> <<>>]
None == [kind |-> "none", clip |-> NoClip, frames |-> <<>>]
Decoded(c, frames) == [kind |-> "clip", clip |-> c, frames |-> frames]

NoBatch ==
  [ status |-> "idle",   \* or "running", "returned" a list, "raised" an exception
    items |-> <<>>,      \* the clip of each position asked for
    req |-> [num |-> 0, sampling |-> "uniform"],
    left |-> {},         \* the items no thread has begun
    out |-> <<>>,        \* per item: Pending, None or Decoded
    failed |-> FALSE ]   \* a thread has met an error

Idle ==
  [ pc |-> "idle",
    item |-> 0,          \* its item of the batch
    uid |-> 0,           \* its number in the name of the temporary file
    src |-> NoClip,      \* the clip in the file it opened
    sent |-> 0,          \* packets given to the decoder
    fc |-> 0,            \* frames taken from it
    frames |-> <<>>,     \* those of them kept
    err |-> FALSE ]

Path(t) == <<proc[t], th[t].uid>>

Init ==
  /\ proc \in Placements
  /\ batch = [p \in Procs |-> NoBatch] /\ seq = [p \in Procs |-> 0]
  /\ th = [t \in Threads |-> Idle]
  /\ temp = [q \in {} |-> NoClip] /\ litter = {} /\ calls = 0 /\ faults = 0

Fails(kind) ==
  /\ kind \in Faults
  /\ faults < MaxFaults /\ faults' = faults + 1
  /\ UNCHANGED <<proc, calls>>
-----------------------------------------------------------------------------
(* decode_video: one item at a time per thread, in any order.                *)

Call(p, items, req) ==
  /\ batch[p].status # "running" /\ \E t \in Threads : proc[t] = p
  /\ calls < MaxCalls /\ calls' = calls + 1
  /\ batch' = [batch EXCEPT ![p] =
                 [ status |-> "running", items |-> items, req |-> req,
                   left |-> 1 .. Len(items),
                   out |-> [i \in 1 .. Len(items) |-> Pending], failed |-> FALSE ]]
  /\ UNCHANGED <<proc, seq, th, temp, litter, faults>>

CanBegin(t, i) ==
  th[t].pc = "idle" /\ batch[proc[t]].status = "running" /\ i \in batch[proc[t]].left

\* read_blob: the modality is absent, ...
ReadNone(t, i) ==
  /\ CanBegin(t, i) /\ batch[proc[t]].items[i] = NoClip
  /\ batch' = [batch EXCEPT ![proc[t]].left = @ \ {i}, ![proc[t]].out[i] = None]
  /\ UNCHANGED <<proc, seq, th, temp, litter, count>>

\* ... or has bytes, and VideoCodec::decode takes the next number for its file
ReadBlob(t, i) ==
  /\ CanBegin(t, i) /\ batch[proc[t]].items[i] # NoClip
  /\ batch' = [batch EXCEPT ![proc[t]].left = @ \ {i}]
  /\ th' = [th EXCEPT ![t] = [Idle EXCEPT !.pc = "stage", !.item = i, !.uid = seq[proc[t]]]]
  /\ seq' = [seq EXCEPT ![proc[t]] = @ + 1]
  /\ UNCHANGED <<proc, temp, litter, count>>

ReadFails(t, i) ==
  /\ CanBegin(t, i) /\ Fails("store")
  /\ batch' = [batch EXCEPT ![proc[t]].left = @ \ {i}, ![proc[t]].failed = TRUE]
  /\ UNCHANGED <<seq, th, temp, litter>>

Verdict(p) == IF batch[p].failed THEN "raised" ELSE "returned"

\* collect: an error is the result of the batch, and items no thread has begun
\* by then may be left out
Return(p) ==
  /\ batch[p].status = "running"
  /\ \A t \in Threads : proc[t] = p => th[t].pc = "idle"
  /\ batch[p].left = {} \/ batch[p].failed
  /\ batch' = [batch EXCEPT ![p].status = Verdict(p)]
  /\ UNCHANGED <<proc, seq, th, temp, litter, count>>
-----------------------------------------------------------------------------
(* VideoCodec::decode around decode_path.                                    *)

Written(path, content) ==
  [q \in DOMAIN temp \cup {path} |-> IF q = path THEN content ELSE temp[q]]

Stage(t) ==
  /\ th[t].pc = "stage"
  /\ temp' = Written(Path(t), batch[proc[t]].items[th[t].item])
  /\ th' = [th EXCEPT ![t].pc = "open"]
  /\ UNCHANGED <<proc, batch, seq, litter, count>>

\* fs::write fails half way: the file stays
StageFails(t) ==
  /\ th[t].pc = "stage" /\ Fails("disk")
  /\ temp' = Written(Path(t), NoClip) /\ litter' = litter \cup {Path(t)}
  /\ th' = [th EXCEPT ![t] = Idle]
  /\ batch' = [batch EXCEPT ![proc[t]].failed = TRUE]
  /\ UNCHANGED seq

CleanedIfRead(t) ==   \* slip: an error returns before remove_file
  IF th[t].err THEN temp ELSE [q \in DOMAIN temp \ {Path(t)} |-> temp[q]]

Cleaned(t) == [q \in DOMAIN temp \ {Path(t)} |-> temp[q]]

\* remove_file, also after an error
Remove(t) ==
  /\ th[t].pc = "remove"
  /\ temp' = Cleaned(t)
  /\ th' = [th EXCEPT ![t] = Idle]
  /\ batch' = IF th[t].err THEN [batch EXCEPT ![proc[t]].failed = TRUE]
              ELSE [batch EXCEPT ![proc[t]].out[th[t].item] = Decoded(th[t].src, th[t].frames)]
  /\ UNCHANGED <<proc, seq, litter, count>>
-----------------------------------------------------------------------------
(* decode_path                                                               *)

Picks(t) ==
  FrameIndices(Reported[th[t].src], batch[proc[t]].req.num, batch[proc[t]].req.sampling)
Counted(t) == Reported[th[t].src] > 0   \* wanted is Some

KeepAll(t) == TRUE   \* slip: the choice is made after decoding
Keeps(t) == Counted(t) => \E j \in DOMAIN Picks(t) : Picks(t)[j] = th[t].fc

PastLastEarly(t) ==   \* slip: fc >= mx
  Counted(t) /\ Picks(t) # <<>> /\ \A j \in DOMAIN Picks(t) : Picks(t)[j] <= th[t].fc

\* fc > mx: the last frame that is wanted has been decoded
PastLast(t) ==
  Counted(t) /\ Picks(t) # <<>> /\ \A j \in DOMAIN Picks(t) : Picks(t)[j] < th[t].fc

\* slip: the loop is left only behind the last wanted frame
UntilLast(t) == IF Counted(t) /\ ~PastLast(t) THEN "packets" ELSE "flush"
BehindLoop(t) == "flush"
Drained(t) == th[t].fc = th[t].sent

MorePackets(x) == x.sent < Decodable[x.src]

Moves(t, x) == th' = [th EXCEPT ![t] = x] /\ UNCHANGED <<proc, batch, seq, temp, litter, count>>

Open(t) ==
  /\ th[t].pc = "open"
  /\ IF Path(t) \in DOMAIN temp /\ temp[Path(t)] # NoClip
     THEN Moves(t, [th[t] EXCEPT !.pc = "packets", !.src = temp[Path(t)]])
     ELSE Moves(t, [th[t] EXCEPT !.pc = "remove", !.err = TRUE])

CodecFails(t) ==
  /\ th[t].pc \in {"open", "packets", "drain", "flush"} /\ Fails("codec")
  /\ th' = [th EXCEPT ![t].pc = "remove", ![t].err = TRUE]
  /\ UNCHANGED <<batch, seq, temp, litter>>

Send(t) ==
  /\ th[t].pc = "packets" /\ MorePackets(th[t])
  /\ Moves(t, [th[t] EXCEPT !.pc = "drain", !.sent = @ + 1])

PacketsEnd(t) ==
  /\ th[t].pc = "packets" /\ ~MorePackets(th[t])
  /\ Moves(t, [th[t] EXCEPT !.pc = BehindLoop(t)])

\* drain: receive_frame gives a frame ...
Receive(t) ==
  /\ th[t].pc \in {"drain", "flush"} /\ th[t].fc < th[t].sent
  /\ Moves(t, [th[t] EXCEPT !.fc = @ + 1,
                            !.frames = IF Keeps(t) THEN Append(@, th[t].fc) ELSE @])

\* ... or none for now
DrainEnds(t) ==
  /\ th[t].pc = "drain"
  /\ Moves(t, [th[t] EXCEPT !.pc = IF PastLast(t) THEN "flush" ELSE "packets"])

\* After the last drain; with no count, the choice is made now.
Select(t) ==
  /\ th[t].pc = "flush" /\ Drained(t)
  /\ LET all == th[t].frames
         sel == FrameIndices(Len(all), batch[proc[t]].req.num, batch[proc[t]].req.sampling)
     IN Moves(t, [th[t] EXCEPT !.pc = "remove",
                    !.frames = IF Counted(t) THEN all ELSE [j \in DOMAIN sel |-> all[sel[j] + 1]]])

\* A process dies, and another one may get its pid.
Die(p) ==
  /\ Fails("crash")
  /\ batch' = [batch EXCEPT ![p] = NoBatch] /\ seq' = [seq EXCEPT ![p] = 0]
  /\ th' = [t \in Threads |-> IF proc[t] = p THEN Idle ELSE th[t]]
  /\ litter' = litter \cup {q \in DOMAIN temp : q[1] = p}
  /\ UNCHANGED temp
-----------------------------------------------------------------------------
Works(t) ==
  \/ \E i \in batch[proc[t]].left : ReadNone(t, i) \/ ReadBlob(t, i)
  \/ Stage(t) \/ Open(t) \/ Send(t) \/ PacketsEnd(t) \/ Receive(t) \/ DrainEnds(t)
  \/ Select(t) \/ Remove(t)

Breaks(t) ==
  StageFails(t) \/ CodecFails(t) \/ \E i \in batch[proc[t]].left : ReadFails(t, i)

AtRest == (\A p \in Procs : batch[p].status # "running") /\ UNCHANGED vars

Next ==
  \/ \E p \in Procs :
       Return(p) \/ Die(p) \/ \E items \in Batches, req \in Requests : Call(p, items, req)
  \/ \E t \in Threads : Works(t) \/ Breaks(t)
  \/ AtRest

Spec == Init /\ [][Next]_vars
FairSpec ==
  Spec /\ (\A t \in Threads : WF_vars(Works(t))) /\ \A p \in Procs : WF_vars(Return(p))
-----------------------------------------------------------------------------
Outcome ==
  [kind : {"pending", "none", "clip"}, clip : Clips \cup {NoClip}, frames : Seq(Nat)]
BatchType ==
  [ status : {"idle", "running", "returned", "raised"}, items : Batches \cup {<<>>},
    req : Request, left : SUBSET Nat, out : Seq(Outcome), failed : BOOLEAN ]
ThreadType ==
  [ pc : {"idle", "stage", "open", "packets", "drain", "flush", "remove"},
    item : Nat, uid : Nat, src : Clips \cup {NoClip}, sent : Nat, fc : Nat,
    frames : Seq(Nat), err : BOOLEAN ]

\* With a count, no more frames are in memory than asked for (video.rs:69-70).
MemoryBounded ==
  \A t \in Threads : th[t].src # NoClip /\ Counted(t) => Len(th[t].frames) <= batch[proc[t]].req.num

\* Types; a decoder gives no frame before its packet, and has no more packets
\* than the clip (the loop over ictx.packets()).
VarsTyped ==
  /\ proc \in Placements /\ batch \in [Procs -> BatchType] /\ seq \in [Procs -> Nat]
  /\ th \in [Threads -> ThreadType]
  /\ DOMAIN temp \subseteq Procs \X Nat /\ litter \subseteq Procs \X Nat
  /\ \A q \in DOMAIN temp : temp[q] \in Clips \cup {NoClip}
  /\ \A t \in Threads : th[t].src # NoClip => th[t].fc <= th[t].sent /\ th[t].sent <= Decodable[th[t].src]
  /\ calls \in 0 .. MaxCalls /\ faults \in 0 .. MaxFaults

\* Types and bounds.
TypeOK == VarsTyped /\ MemoryBounded

\* The frames of clip c a request should bring: those chosen among the reported
\* ones, or else among all, as far as they exist.
Sampled(c, req) ==
  LET f == FrameIndices(IF Reported[c] > 0 THEN Reported[c] ELSE Decodable[c], req.num, req.sampling)
  IN SubSeq(f, 1, Cardinality({j \in DOMAIN f : f[j] < Decodable[c]}))

\* What a batch holds of a position is that position's own clip, with the frames
\* of Sampled, or None where the modality is absent: however the decoder delays
\* frames, whether the container reports a count or not, and whoever else decodes
\* at the time.  Unless the count is wrong they are spread over the clip as
\* frame_indices promises, and a list that is returned has every position.
ClipsRight ==
  \A p \in Procs : \A i \in 1 .. Len(batch[p].items) :
    LET o == batch[p].out[i]  c == batch[p].items[i]  req == batch[p].req
    IN /\ o.kind = "pending" => batch[p].status # "returned"
       /\ o.kind = "none" => c = NoClip
       /\ o.kind = "clip" =>
            /\ c # NoClip /\ o.clip = c /\ o.frames = Sampled(c, req)
            /\ Reported[c] \in {0, Decodable[c]} =>
                 Spread(o.frames, Decodable[c], req.num, req.sampling)

\* A temporary file is that of a decode under way, or of one that could not
\* remove it: errors of the decoder leave none behind.
NoLitter ==
  DOMAIN temp \subseteq litter \cup {Path(t) : t \in {u \in Threads : th[u].pc # "idle"}}

\* Every batch ends: whatever the container reports, the loops of decode_path do.
BatchEnds == \A p \in Procs : batch[p].status = "running" ~> batch[p].status # "running"
=============================================================================
