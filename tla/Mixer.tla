-------------------------------- MODULE Mixer --------------------------------
(***************************************************************************)
(* The sound of a system on its way to the host: every sound chip writes a *)
(* stream of its own (Node::Stream), whose resampler queues what the host  *)
(* is to play, and Emulator::audio of the user interface outputs a frame   *)
(* when each stream of its list has one.  The list is read from the node   *)
(* tree when a stream is attached to it or detached from it.               *)
(*                                                                         *)
(* A cartridge may bring streams.  As the code advises, it is exchanged    *)
(* when the power is off.  The samples themselves are left out; a sample   *)
(* that completes no output sample changes nothing here.                   *)
(***************************************************************************)
EXTENDS Integers, FiniteSetsExt

CONSTANTS
  Own,       \* the stream of the system's sound chip
  Chips,     \* the streams cartridges may bring; one that is nowhere is a new object
  Skew,      \* the most a chip's thread runs ahead of the CPU, in output samples
  Burst,     \* the most output samples one sample of a chip completes
  Capacity,  \* the places of a queue; 20 ms in the code
  MaxSize,   \* bound on what is written to a queue that nobody reads
  MaxJolts   \* bound on the loads of states and changes of frequency until the next power

ASSUME MixerAssumption ==
  /\ Own \notin Chips
  /\ Skew \in Nat /\ Burst \in 1 .. Skew /\ MaxJolts \in Nat
  /\ MaxSize \in Nat /\ Capacity \in Nat /\ Skew + 2 * Skew * MaxJolts <= Capacity

VARIABLES
  tree,     \* the streams in the node tree
  streams,  \* Emulator::streams
  size,     \* size[s]: the samples queued in the resampler of s
  lead,     \* lead[s]: what the thread of s has produced ahead of the CPU
  on,       \* Emulator::system.power
  jolts,    \* history: loads and changes of frequency since the power came on
  mixed     \* history: a frame was output since the CPU last ran

vars == <<tree, streams, size, lead, on, jolts, mixed>>

Streams == {Own} \cup Chips

-----------------------------------------------------------------------------
(* The list of streams *)

\* Mutant: the list is read before the node is in the tree.
AttachedBefore(before, after) == before
\* Object::append inserts the node, then calls Emulator::attach.
Attached(before, after) == after

\* Object::remove and reset call Emulator::detach, then take the node out.
Detached(before, after) == before

-----------------------------------------------------------------------------
(* The queues *)

\* Mutant: the queues are left as they are.
Kept(sizes, which) == sizes
\* Stream::setResamplerFrequency of each stream of which: resize(), an empty queue
Emptied(sizes, which) == [s \in Streams |-> IF s \in which THEN 0 ELSE sizes[s]]

\* The frames that can be output: every stream of the list has a sample for each.
Frames(sizes) == IF streams = {} THEN 0 ELSE Min({sizes[s] : s \in streams})

\* Mutant: every stream that has samples is read, whether the others have them or not.
TakenAnyway(sizes, frames) == [s \in Streams |-> IF s \in streams THEN 0 ELSE sizes[s]]
\* Stream::read of every stream of the list, for every frame
Taken(sizes, frames) ==
  [s \in Streams |-> IF s \in streams THEN sizes[s] - frames ELSE sizes[s]]

-----------------------------------------------------------------------------
(* The host, between two calls of Interface::run *)

\* Emulator::load: interface->load(root) attaches the stream of the system.
Load ==
  /\ ~on
  /\ tree' = {Own} /\ streams' = Attached({}, {Own})
  /\ size' = [s \in Streams |-> 0]
  /\ UNCHANGED <<lead, on, jolts, mixed>>

\* Port::connect of a cartridge with the streams of more
Connect(more) ==
  /\ ~on /\ tree = {Own} /\ more # {} /\ more \cap streams = {}
  /\ tree' = tree \cup more /\ streams' = Attached(tree, tree')
  /\ size' = Emptied(size, more)
  /\ UNCHANGED <<lead, on, jolts, mixed>>

\* Port::disconnect
Disconnect ==
  /\ ~on /\ tree # {Own}
  /\ tree' = {Own} /\ streams' = Detached(tree, tree')
  /\ UNCHANGED <<size, lead, on, jolts, mixed>>

\* Emulator::power(true): audioUpdateEffects(), and every thread starts anew.
PowerOn ==
  /\ ~on /\ on' = TRUE
  /\ size' = Emptied(size, tree)
  /\ lead' = [s \in Streams |-> 0]
  /\ jolts' = 0 /\ mixed' = FALSE
  /\ UNCHANGED <<tree, streams>>

PowerOff ==
  /\ on /\ on' = FALSE
  /\ UNCHANGED <<tree, streams, size, lead, jolts, mixed>>

\* A setting of the sound is changed: audioUpdateEffects().
ChangeSettings ==
  /\ on /\ jolts < MaxJolts /\ jolts' = jolts + 1
  /\ size' = Emptied(size, tree)
  /\ UNCHANGED <<tree, streams, lead, on, mixed>>

\* Emulator::loadState: the threads are where they were; the queues are not in a state.
LoadState ==
  /\ on /\ jolts < MaxJolts /\ jolts' = jolts + 1
  /\ lead' \in [Streams -> 0 .. Skew]
  /\ \A s \in Streams \ tree : lead'[s] = lead[s]
  /\ UNCHANGED <<tree, streams, size, on, mixed>>

-----------------------------------------------------------------------------
(* The system, inside Interface::run *)

\* A program sets the frequency of a chip: Stream::setFrequency.
Retune(s) ==
  /\ on /\ s \in tree \ {Own} /\ jolts < MaxJolts /\ jolts' = jolts + 1
  /\ size' = Emptied(size, {s})
  /\ UNCHANGED <<tree, streams, lead, on, mixed>>

\* Stream::write of a sample that completes n samples, and Emulator::audio
Sample(s) ==
  /\ on /\ s \in tree
  /\ \E n \in 1 .. Burst :
       LET sizes == [size EXCEPT ![s] = @ + n]
           frames == Frames(sizes)
       IN  /\ lead[s] + n <= Skew /\ size[s] + n <= MaxSize
           /\ lead' = [lead EXCEPT ![s] = @ + n]
           /\ size' = Taken(sizes, frames)
           /\ mixed' = (mixed \/ frames > 0)
  /\ UNCHANGED <<tree, streams, on, jolts>>

\* The CPU runs for the time of one output sample, having waited for the other threads.
CpuRuns ==
  /\ on /\ \A s \in tree : lead[s] > 0
  /\ lead' = [s \in Streams |-> IF s \in tree THEN lead[s] - 1 ELSE lead[s]]
  /\ mixed' = FALSE
  /\ UNCHANGED <<tree, streams, size, on, jolts>>

-----------------------------------------------------------------------------
Init ==
  /\ tree = {Own} /\ streams = {Own} /\ on = FALSE
  /\ size = [s \in Streams |-> 0] /\ lead = [s \in Streams |-> 0]
  /\ jolts = 0 /\ mixed = FALSE

Next ==
  \/ Load \/ \E more \in SUBSET Chips : Connect(more)
  \/ Disconnect \/ PowerOn \/ PowerOff \/ ChangeSettings \/ LoadState
  \/ \E s \in Streams : Retune(s) \/ Sample(s)
  \/ CpuRuns

\* The threads of a system that is on run on.
Spec ==
  /\ Init /\ [][Next]_vars
  /\ WF_vars(CpuRuns) /\ \A s \in Streams : WF_vars(Sample(s))

-----------------------------------------------------------------------------
(* Properties *)

\* The variables have their types, and every stream of the tree is in the list: no
\* chip is left out of the mix.
MixerTypeOK ==
  /\ tree \subseteq Streams /\ streams \subseteq Streams
  /\ Own \in tree /\ tree \subseteq streams
  /\ size \in [Streams -> Nat] /\ lead \in [Streams -> 0 .. Skew]
  /\ on \in BOOLEAN /\ jolts \in 0 .. MaxJolts /\ mixed \in BOOLEAN

\* The list holds no stream that was removed.
Fresh == streams \subseteq tree

\* The ring buffer, which checks nothing, is never given more than it holds, however
\* chips lead and lag, states are loaded and frequencies change (nall/queue.hpp).
NeverOverrun == on /\ Fresh => \A s \in tree : size[s] <= Capacity

\* What two streams have waiting to be played next was produced at the same time,
\* but for the shift a load or a change of frequency makes: chips do not drift apart.
Shift == 2 * Skew * jolts
InStep ==
  on /\ Fresh =>
    \A s, t \in tree : (lead[s] - size[s]) - (lead[t] - size[t]) <= Shift

\* "process all pending frames (there may be more than one waiting)": when every
\* stream of the system has a sample, it is output (Emulator::audio).
AllMixed == on => \E s \in tree : size[s] = 0

\* The streams never wait for one another for good: while the power is on, frames
\* are output again and again.
SoundGoesOn == []<>(mixed \/ ~on \/ ~Fresh)
=============================================================================
