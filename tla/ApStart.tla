------------------------------- MODULE ApStart -------------------------------
(***************************************************************************)
(* The boot processor (BSP) starts an application processor (AP): cpu.c on *)
(* one side, the payload of ap_init_payload.h on the other, with the local *)
(* APIC's command register and the PIT between them.  system_main calls    *)
(* cpu_start once.  The two share struct ap_data, in the page kept below   *)
(* 1 MiB, and run at speeds that have nothing to do with the timeouts.     *)
(***************************************************************************)
EXTENDS Integers

CONSTANTS LowPages,  \* page numbers pmm_ap_low_page may have
          StubAt,    \* x64_stub - start, in the payload
          Blocks     \* what malloc_pages may return: the lowest address of four
                     \* pages, or 0, NULL

ASSUME ApStartAssumption ==
  LowPages \subseteq 1 .. 255 /\ StubAt \in Nat \ {0} /\ Blocks \subseteq Nat

VARIABLES bsp,      \* the BSP, in system_main and cpu_start
          lowPage,  \* pmm_ap_low_page / 4096
          icr,      \* the interrupt command register: what is still pending
          pit,      \* cycles the PIT was loaded with
          expired,  \* the PIT's output has gone high since
          has_started, stack, start_addr,  \* of struct ap_data
          result,   \* what cpu_start returned, -1 before
          ap,       \* what the AP is doing
          rsp,      \* the AP's stack pointer
          lent      \* history: what malloc_pages returned for the AP

startVars == <<bsp, lowPage, icr, pit, expired, has_started, stack, start_addr, result, ap, rsp,
               lent>>
data == <<has_started, stack, start_addr>>
apVars == <<ap, rsp, lent>>

None == -1
Garbage == 1     \* what the data structure holds before it is written

(* Addresses of the data structure and of the code are 16 bits wide on the *)
(* AP's side: they name the page kept for the payload if it is below 64 KiB. *)
Addressable == lowPage < 16

StartInit == /\ bsp = "payload" /\ lowPage \in LowPages
             /\ icr = "none" /\ pit = 0 /\ expired = FALSE
             /\ has_started = Garbage /\ stack = Garbage /\ start_addr = Garbage
             /\ result = -1 /\ ap = "halted" /\ rsp = None /\ lent = None

-----------------------------------------------------------------------------
(* cpu_init_ap_payload; the stack field is not written.  The start address *)
(* is counted from the start of the page.                                  *)
InitPayload ==
  /\ bsp = "payload" /\ bsp' = "init"
  /\ has_started' = 0 /\ start_addr' = 0
  /\ UNCHANGED <<lowPage, icr, pit, expired, stack, result, apVars>>

(* cpu_send_ipi: the command replaces what the register held.  With an     *)
(* x2APIC nothing follows the write; without, the loop after it tests bit  *)
(* 11 of the register, which the command does not set, and ends at once.   *)
SendIpi(from, what, to) ==
  /\ bsp = from /\ bsp' = to
  /\ icr' = what
  /\ UNCHANGED <<lowPage, pit, expired, data, result, apVars>>

(* _pit_set_timeout: the counter has 16 bits.                              *)
PitCycles(ms) == (ms * 1193) % 65536

SetTimeout(from, ms, to) ==
  /\ bsp = from /\ bsp' = to
  /\ pit' = PitCycles(ms) /\ expired' = FALSE
  /\ UNCHANGED <<lowPage, icr, data, result, apVars>>

(* while (!_pit_timeout_reached()), without or with a look at the flag.    *)
WaitOver(from, to) ==
  /\ bsp = from /\ expired /\ bsp' = to
  /\ UNCHANGED <<lowPage, icr, pit, expired, data, result, apVars>>

(* A mutation of PollSees: the flag is reset before there is a stack.      *)
PollSeesEarly(from) ==
  /\ bsp = from /\ has_started = 1
  /\ has_started' = 0 /\ bsp' = "stack"
  /\ UNCHANGED <<lowPage, icr, pit, expired, stack, start_addr, result, apVars>>

(* The timeout has not been reached and the flag is set: _cpu_started gets *)
(* a stack from malloc_pages first ...                                     *)
PollSees(from) ==
  /\ bsp = from /\ has_started = 1
  /\ bsp' = "stack"
  /\ UNCHANGED <<lowPage, icr, pit, expired, data, result, apVars>>

(* ... and stores what it returns, the lowest address of the pages or NULL, *)
(* for the AP to load as it is ...                                         *)
GiveStack ==
  /\ bsp = "stack" /\ bsp' = "release"
  /\ \E block \in Blocks : lent' = block /\ stack' = block
  /\ UNCHANGED <<lowPage, icr, pit, expired, has_started, start_addr, result, ap, rsp>>

(* A mutation of Release: the AP is not told.                              *)
ReleaseSilent ==
  /\ bsp = "release" /\ bsp' = "hlt"
  /\ result' = 0
  /\ UNCHANGED <<lowPage, icr, pit, expired, data, apVars>>

(* ... and then lets the AP go on.                                         *)
Release ==
  /\ bsp = "release" /\ bsp' = "hlt"
  /\ has_started' = 0 /\ result' = 0
  /\ UNCHANGED <<lowPage, icr, pit, expired, stack, start_addr, apVars>>

(* A mutation of GiveUp: the flag is reset for a next call.                *)
GiveUpReset ==
  /\ bsp = "poll2" /\ expired /\ bsp' = "hlt"
  /\ result' = 1 /\ has_started' = 0
  /\ UNCHANGED <<lowPage, icr, pit, expired, stack, start_addr, apVars>>

(* A mutation of GiveUp: the loop ends only when the AP has answered, too. *)
GiveUpWaits ==
  /\ bsp = "poll2" /\ expired /\ has_started = 1 /\ bsp' = "hlt"
  /\ result' = 1
  /\ UNCHANGED <<lowPage, icr, pit, expired, data, apVars>>

(* The second timeout: cpu_start returns 1 and system_main halts.          *)
GiveUp ==
  /\ bsp = "poll2" /\ expired /\ bsp' = "hlt"
  /\ result' = 1
  /\ UNCHANGED <<lowPage, icr, pit, expired, data, apVars>>

Bsp == \/ InitPayload
       \/ SendIpi("init", "INIT", "timer0") \/ SetTimeout("timer0", 10, "wait")
       \/ WaitOver("wait", "sipi1")
       \/ SendIpi("sipi1", "SIPI", "timer1") \/ SetTimeout("timer1", 1, "poll1")
       \/ PollSees("poll1") \/ WaitOver("poll1", "sipi2")
       \/ SendIpi("sipi2", "SIPI", "timer2") \/ SetTimeout("timer2", 1000, "poll2")
       \/ PollSees("poll2") \/ GiveUp
       \/ GiveStack \/ Release

-----------------------------------------------------------------------------
(* The PIT counts down.                                                    *)
Expire == /\ bsp \in {"wait", "poll1", "poll2"} /\ ~expired
          /\ expired' = TRUE
          /\ UNCHANGED <<bsp, lowPage, icr, pit, data, result, apVars>>

(* The APIC delivers a pending command.  INIT stops the AP, a SIPI starts  *)
(* one that has been stopped, and is ignored otherwise.                    *)
Deliver ==
  /\ icr # "none" /\ icr' = "none"
  /\ ap' = CASE icr = "INIT" -> "stopped"
             [] icr = "SIPI" /\ ap = "stopped" -> "payload"
             [] OTHER -> ap
  /\ UNCHANGED <<bsp, lowPage, pit, expired, data, result, rsp, lent>>

-----------------------------------------------------------------------------
(* The payload's first instructions: the AP says that it has started.      *)
ApSayStarted ==
  /\ ap = "payload" /\ ap' = "spin"
  /\ has_started' = IF Addressable THEN 1 ELSE has_started
  /\ UNCHANGED <<bsp, lowPage, icr, pit, expired, stack, start_addr, result, rsp, lent>>

(* wait_continue sees 0.  (What an AP spins on elsewhere stays as it is.)  *)
ApContinue ==
  /\ ap = "spin" /\ Addressable /\ has_started = 0 /\ ap' = "switch"
  /\ UNCHANGED <<bsp, lowPage, icr, pit, expired, data, result, rsp, lent>>

(* Up to ljmp: long mode is entered and the far pointer is advanced to     *)
(* x64_stub, in place.                                                     *)
ApJump ==
  /\ ap = "switch"
  /\ start_addr' = start_addr + StubAt
  /\ ap' = IF start_addr' = StubAt THEN "stub" ELSE "astray"
  /\ UNCHANGED <<bsp, lowPage, icr, pit, expired, has_started, stack, result, rsp, lent>>

(* x64_stub: the stack, then _ap_entry_point.                              *)
ApEnter ==
  /\ ap = "stub" /\ ap' = "kernel"
  /\ rsp' = stack
  /\ UNCHANGED <<bsp, lowPage, icr, pit, expired, data, result, lent>>

Ap == ApSayStarted \/ ApContinue \/ ApJump \/ ApEnter

StartNext == Bsp \/ Expire \/ Deliver \/ Ap

(* Both processors execute with interrupts disabled; the PIT counts and    *)
(* the APIC delivers.  PollSees is fair as part of the polling loop: each  *)
(* turn reads the flag.                                                    *)
StartSpec == /\ StartInit /\ [][StartNext]_startVars /\ WF_startVars(Bsp)
             /\ WF_startVars(Expire) /\ WF_startVars(Deliver) /\ WF_startVars(Ap)

-----------------------------------------------------------------------------
(* However late the AP answers, it reaches kernel code only after           *)
(* _cpu_started has asked malloc_pages for a stack, with rsp at what that   *)
(* returned and never at what the page held before.  (It is the lowest      *)
(* address of the pages, or NULL: the AP has no room to push.)             *)
KernelHasStack == ap = "kernel" => rsp = lent /\ lent \in Blocks

(* An AP that answers after the last timeout, when cpu_start has returned  *)
(* 1, is held in the payload's loop for good.                              *)
LateApHeld == result = 1 => ap \notin {"switch", "stub", "kernel", "astray"}

(* cpu_start returns 0 only for an AP that is waiting or has moved on, and *)
(* such an AP gets into the kernel.                                        *)
StartedRuns == result = 0 ~> ap = "kernel"

(* cpu_start returns, whatever the AP does.                                *)
CallReturns == <>(bsp = "hlt")

(* An inductive invariant behind the two: until cpu_start gives the AP its *)
(* stack and returns 0, an AP that has answered finds its flag set.        *)
Handshake ==
  /\ bsp \in {"payload", "init"} => icr = "none" /\ ap = "halted"
  /\ icr = "INIT" => ap = "halted"
  /\ bsp = "release" => stack = lent /\ lent \in Blocks
  /\ bsp # "hlt" => result = -1
  /\ ap = "spin" /\ Addressable /\ has_started = 0 => result = 0
  /\ ap \in {"switch", "stub", "kernel", "astray"} => result = 0
  /\ result = 0 => stack = lent /\ lent \in Blocks
  /\ ap = "kernel" => rsp = lent
=============================================================================
