---------------------------- MODULE MCScheduler ----------------------------
(***************************************************************************)
(* Instances of SystemHost for TLC: what the entry points of small systems  *)
(* do.  Step sizes differ, so that threads overtake each other.            *)
(***************************************************************************)
EXTENDS SystemHost, TLC

CONSTANTS cpu, ppu, smp, pad1, pad2, rtc, superfx

\* The CPU steps and synchronizes every thread (md/cpu/cpu.cpp:72,
\* gb/cpu/timing.cpp:24); the PPU ends a frame with each of its calls; a SuperFX
\* may wait for a flag the CPU sets (sfc/coprocessor/superfx/memory.cpp).
HubProgram ==
  [t \in Thread |->
    CASE t = cpu  -> {<<StepBy(2), SyncAll>>, <<StepBy(3), SyncAll>>}
      [] t = ppu  -> {<<StepBy(3), SyncWith(cpu), ExitFrame>>}
      [] t = superfx -> {<<StepBy(2), SyncWith(cpu)>>,
                         <<WaitFor(1, cpu), StepBy(2), SyncWith(cpu)>>}
      [] OTHER    -> {<<StepBy(2), SyncWith(cpu)>>}]

\* The Super Famicom's CPU synchronizes the devices it lists, then other threads by
\* name (sfc/cpu/timing.cpp:48-57).
NamedProgram ==
  [HubProgram EXCEPT
     ![cpu] = {<<StepBy(n), SyncAlive(pad1), SyncAlive(pad2), SyncWith(ppu)>> : n \in {2, 3}}]

\* The same with one device and a coprocessor at every step, the PPU at the end of a scanline.
ChipProgram ==
  LET everyStep == <<SyncAlive(pad1), SyncAlive(rtc)>>
  IN  [HubProgram EXCEPT ![cpu] = {<<StepBy(3)>> \o everyStep \o <<SyncWith(ppu)>>}]

\* The CPU writes the registers that restart the PPU's coroutine
\* (gb/ppu/io.cpp:149) and destroy and create the APU's (ngp/apu/apu.cpp:69).
RestartProgram ==
  [HubProgram EXCEPT
     ![cpu] = {<<StepBy(2), SyncAll>>,
               <<Restart(ppu), StepBy(2), SyncAll>>,
               <<Renew(smp), StepBy(3), SyncAll>>},
     ![ppu] = {<<StepBy(1), SyncWith(cpu), ExitFrame>>}]

\* The orders of System::power, which depend on the cartridge.
ThreeBoots == {<<cpu, smp, ppu>>}
TwoBoots   == {<<cpu, ppu>>}
FxBoots    == {<<cpu, superfx, ppu>>, <<cpu, ppu>>}
ChipBoots  == {<<cpu, ppu, rtc>>, <<cpu, ppu>>}

AnyHandle == Permutations(Handle)

\* The theorems about renewed threads and about devices speak of these programs too.
ASSUME ProgramAssumption ==
  /\ RenewsAlone
  /\ Program \in {NamedProgram, ChipProgram} => DevicePrograms
=============================================================================
