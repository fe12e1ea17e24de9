----------------------------- MODULE Enc28Boot ------------------------------
(***************************************************************************)
(* How the chip is brought up: enc28_test_app and the calls it makes       *)
(* (enc28_do_soft_reset, enc28_do_init, enc28_do_read_hw_rev,              *)
(* enc28_begin_packet_transfer), each a list of register accesses, with    *)
(* the chip (its clock, its MII interface, its interrupt pin) running      *)
(* between any two of them.                                                *)
(*                                                                         *)
(* An access names a register; the chip sees its 5-bit address in the bank *)
(* selected by ECON1.  The driver keeps a copy of that bank, from which it *)
(* decides whether a read is preceded by a dummy byte.  The low and high   *)
(* byte of a register pair are one access, and so are the six bytes of the *)
(* MAC address.                                                            *)
(***************************************************************************)
EXTENDS Integers, Sequences

VARIABLES
    hwBank, rxen,           \* ECON1: selected bank, receive enable
    clkrdy, phyclk,         \* ESTAT.CLKRDY; the PHY is ready
    duplex, fulldpx,        \* PHCON1.PDPXMD, MACON3.FULLDPX
    miird, busy,            \* MICMD.MIIRD, MISTAT.BUSY
    miregadr, mird,         \* MIREGADR; the PHY register MIRD is a copy of
    programmed,             \* registers set since the last reset
    currBank,               \* priv_enc28_curr_bank
    todo,                   \* accesses left of the current call
    value,                  \* the PHY register enc28_do_read_phy_register read
    stage,                  \* how far enc28_test_app is; "any" for a program
                            \* that calls the driver in any order
    handle, asserted,       \* packet_task_handle is set; an assertion failed
    access                  \* history: the last access

chip == <<hwBank, rxen, clkrdy, phyclk, duplex, fulldpx, miird, busy, miregadr,
          mird, programmed>>
bank == <<hwBank, currBank>>
mac  == <<rxen, fulldpx, programmed>>
mii  == <<miird, busy, miregadr, mird>>
vars == <<chip, currBank, todo, value, stage, handle, asserted, access>>

-----------------------------------------------------------------------------
(* Registers.                                                              *)

(* The addresses the code uses (of the low byte, for pairs).               *)
Addr == [ERDPT |-> 0, ERXST |-> 8, ERXND |-> 10, ERXRDPT |-> 12,
         ERXFCON |-> 24,
         MACON1 |-> 0, MACON3 |-> 2, MACON4 |-> 3, MABBIPG |-> 4, MAIPGL |-> 6,
         MAIPGH |-> 7, MAMXFL |-> 10, MICMD |-> 18, MIREGADR |-> 20, MIRD |-> 24,
         MAC_ADD |-> 0, MISTAT |-> 10, EREVID |-> 18,
         EIE |-> 27, EIR |-> 28, ESTAT |-> 29, ECON2 |-> 30, ECON1 |-> 31]

(* Where the chip has them; 27 to 31 are the same in every bank.           *)
Banks == << {"ERDPT", "ERXST", "ERXND", "ERXRDPT"}, {"ERXFCON"},
            {"MACON1", "MACON3", "MACON4", "MABBIPG", "MAIPGL", "MAIPGH",
             "MAMXFL", "MICMD", "MIREGADR", "MIRD"},
            {"MAC_ADD", "MISTAT", "EREVID"} >>
Common == {"EIE", "EIR", "ESTAT", "ECON2", "ECON1"}

(* MAC and MII registers send a dummy byte before their value.             *)
MacOrMii == (Banks[3] \cup Banks[4]) \ {"EREVID"}

(* The register an access to r really reaches.                             *)
Reached(r) ==
    LET here == {q \in Common \cup Banks[hwBank + 1] : Addr[q] = Addr[r]}
    IN  IF here = {} THEN "none" ELSE CHOOSE q \in here : TRUE

(* Mutant: MISTAT is missing from the list of bank 3.                      *)
NoMistat(a) ==
    \/ currBank = 2 /\ a \in {0, 2, 3, 4, 18, 20} \cup 6..11 \cup 22..25
    \/ currBank = 3 /\ a \in 0..5

(* priv_enc28_is_mac_or_mii_reg, from the copy of the bank.                *)
IsMacOrMiiReg(a) ==
    \/ currBank = 2 /\ a \in {0, 2, 3, 4, 18, 20} \cup 6..11 \cup 22..25
    \/ currBank = 3 /\ a \in {10} \cup 0..5

(* The read of r skips a dummy byte exactly when there is one.             *)
ReadsWell(r) == IsMacOrMiiReg(Addr[r]) <=> Reached(r) \in MacOrMii

Access(r, read) ==
    access' = [want |-> r, got |-> Reached(r), clkrdy |-> clkrdy,
               well |-> read => ReadsWell(r)]

-----------------------------------------------------------------------------
(* The functions of the driver as lists of accesses.                       *)

Bank(n)  == [op |-> "bank", bank |-> n]
Write(r) == [op |-> "write", reg |-> r]
Set(r)   == [op |-> "set", reg |-> r, full |-> FALSE]
SetMacon3(full) == [op |-> "set", reg |-> "MACON3", full |-> full]
Read(r)  == [op |-> "read", reg |-> r]
Clear(r) == [op |-> "clear", reg |-> r]
Rxen(b)  == [op |-> "rxen", on |-> b]
MiiAddress(p) == [op |-> "miregadr", phy |-> p]
MiiCommand(b) == [op |-> "micmd", on |-> b]
Other(o)      == [op |-> o]

(* Mutant: MICMD.MIIRD is left set.                                        *)
ReadPhyLeaveCommand(p) ==
    << Bank(2), MiiAddress(p), MiiCommand(TRUE), Bank(3), Other("poll_busy"),
       Bank(2), Other("read_mird") >>

(* Mutant: bank 2 stays selected while MISTAT is polled.                   *)
ReadPhyOneBank(p) ==
    << Bank(2), MiiAddress(p), MiiCommand(TRUE), Other("poll_busy"),
       MiiCommand(FALSE), Other("read_mird") >>

(* enc28_do_read_phy_register.                                             *)
ReadPhy(p) ==
    << Bank(2), MiiAddress(p), MiiCommand(TRUE), Bank(3), Other("poll_busy"),
       Bank(2), MiiCommand(FALSE), Other("read_mird") >>

BufferRegisterInit ==
    << Bank(0), Write("ERXST"), Write("ERXND"), Write("ERXRDPT") >>

ReceiveFilterInit == << Bank(1), Write("ERXFCON") >>

(* priv_enc28_do_mac_init up to the use of PHCON1 ...                      *)
MacInit == << Bank(2), Set("MACON1") >> \o ReadPhy("PHCON1") \o << Other("duplex") >>

(* Mutant: is_full_duplex is not used for MACON3.                          *)
MacInitHalfDuplex(full) ==
    << SetMacon3(FALSE),
       Set("MACON4"), Write("MAMXFL"), Write("MABBIPG"), Write("MAIPGL") >>
    \o (IF full THEN <<>> ELSE << Write("MAIPGH") >>)
    \o << Bank(3), Write("MAC_ADD"), Bank(0) >>

(* ... and after it.                                                       *)
MacInitRest(full) ==
    << SetMacon3(full),
       Set("MACON4"), Write("MAMXFL"), Write("MABBIPG"), Write("MAIPGL") >>
    \o (IF full THEN <<>> ELSE << Write("MAIPGH") >>)
    \o << Bank(3), Write("MAC_ADD"), Bank(0) >>

DoInit == BufferRegisterInit \o ReceiveFilterInit \o << Other("poll_clock") >> \o MacInit

ReadHwRev == ReadPhy("PHID1") \o ReadPhy("PHID2") \o << Bank(3), Read("EREVID") >>

ReadMac == << Bank(3), Read("MAC_ADD") >>

BeginPacketTransfer ==
    << Bank(0), Write("ERDPT"), Set("EIE"), Clear("EIR"), Set("ECON2"),
       Rxen(TRUE) >>

EndPacketTransfer == << Bank(0), Rxen(FALSE) >>

-----------------------------------------------------------------------------
(* Power is on; the static variables of the program have their first       *)
(* value.                                                                  *)
Init ==
    /\ hwBank = 0 /\ rxen = FALSE
    /\ clkrdy \in BOOLEAN /\ phyclk = clkrdy
    /\ duplex \in BOOLEAN /\ fulldpx = FALSE
    /\ miird = FALSE /\ busy = FALSE /\ miregadr = "PHCON1" /\ mird = "nothing"
    /\ programmed = {}
    /\ currBank = 0 /\ todo = <<>> /\ value = "nothing" /\ stage \in {"start", "any"}
    /\ handle = FALSE /\ asserted = FALSE
    /\ access = [want |-> "ECON1", got |-> "ECON1", clkrdy |-> clkrdy, well |-> TRUE]

(* The calls of enc28_test_app come one after the other, each once the one *)
(* before it is done; a failed assertion stops everything.                 *)
Advance(from, to) ==
    /\ ~asserted
    /\ todo = <<>>
    /\ stage \in {from, "any"}
    /\ stage' = IF stage = "any" THEN "any" ELSE to

Call(from, to, accesses) ==
    /\ Advance(from, to)
    /\ todo' = accesses
    /\ UNCHANGED <<chip, currBank, value, handle, asserted, access>>

(* The reset command: the registers, those of the MII included, have their *)
(* reset values again and the PHY clock stops, while CLKRDY stays as it is *)
(* (errata item 1); the driver's copy of the bank is not touched.          *)
SoftReset ==
    /\ Advance("start", "reset")
    /\ hwBank' = 0 /\ rxen' = FALSE /\ fulldpx' = FALSE
    /\ miird' = FALSE /\ busy' = FALSE /\ miregadr' = "PHCON1" /\ mird' = "nothing"
    /\ programmed' = {}
    /\ phyclk' = FALSE
    /\ value' = "nothing"
    /\ UNCHANGED <<clkrdy, duplex, currBank, todo, handle, asserted, access>>

CallInit  == Call("reset", "init", DoInit)
CallHwRev == Call("init", "hw_rev", ReadHwRev)
CallBegin == Call("hw_rev", "begin", BeginPacketTransfer)
CallReadMac == Call("any", "any", ReadMac)
CallEnd     == Call("any", "any", EndPacketTransfer)

(* The steps of enc28_test_app that do not use the driver; the interrupt   *)
(* may come between any two of them.                                       *)
Step(from, to) ==
    /\ ~asserted
    /\ todo = <<>>
    /\ stage = from /\ stage' = to
    /\ UNCHANGED <<chip, currBank, todo, value, asserted, access>>

(* xTaskCreate stores packet_task_handle.                                  *)
CreatePacketTask == Step("begin", "packet_task") /\ handle' = TRUE

CreateIpTask   == Step("packet_task", "ip_task") /\ UNCHANGED handle
CreateQueues   == Step("ip_task", "queues") /\ UNCHANGED handle
StartScheduler == Step("queues", "running") /\ UNCHANGED handle

-----------------------------------------------------------------------------
(* Accesses.                                                               *)

(* The next access of the call is an op of register r.                     *)
Do(op, r, read) ==
    /\ ~asserted
    /\ todo # <<>>
    /\ Head(todo).op = op
    /\ todo' = Tail(todo)
    /\ Access(r, read)
    /\ UNCHANGED <<clkrdy, phyclk, duplex, stage, handle, asserted>>

Reg == Head(todo).reg

(* enc28_select_register_bank.                                             *)
SelectBank ==
    /\ Do("bank", "ECON1", TRUE)
    /\ hwBank' = Head(todo).bank /\ currBank' = Head(todo).bank
    /\ UNCHANGED <<mac, mii, value>>

(* enc28_do_write_ctl_reg.                                                 *)
WriteReg ==
    /\ Do("write", Reg, FALSE)
    /\ programmed' = programmed \cup {Reached(Reg)}
    /\ UNCHANGED <<rxen, fulldpx, bank, mii, value>>

(* Whether a "set bits" command changes the register it reaches: the       *)
(* datasheet gives the command for ETH registers only.                     *)
SetWorks(r) == IF Reached(r) \in MacOrMii THEN BOOLEAN ELSE {TRUE}

(* enc28_do_set_bits_ctl_reg; the bits of MACON3 include FULLDPX.          *)
SetBits ==
    /\ Do("set", Reg, FALSE)
    /\ \E works \in SetWorks(Reg) :
          /\ programmed' = IF works THEN programmed \cup {Reached(Reg)} ELSE programmed
          /\ fulldpx' = (fulldpx \/ (works /\ Head(todo).full))
    /\ UNCHANGED <<rxen, bank, mii, value>>

(* ECON1.RXEN is set or cleared.                                           *)
SetRxen ==
    /\ Do("rxen", "ECON1", FALSE)
    /\ rxen' = Head(todo).on
    /\ UNCHANGED <<fulldpx, programmed, bank, mii, value>>

(* A register is read, and its value only shown, or flags are cleared.     *)
ReadOrClear ==
    /\ Do("read", Reg, TRUE) \/ Do("clear", Reg, FALSE)
    /\ UNCHANGED <<mac, bank, mii, value>>

(* Mutant: one look at ESTAT, whatever it says.                            *)
PollClockOnce ==
    /\ Do("poll_clock", "ESTAT", TRUE)
    /\ UNCHANGED <<mac, bank, mii, value>>

(* The read of ESTAT that ends the loop of priv_enc28_do_poll_estat_clk.   *)
PollClock ==
    /\ Do("poll_clock", "ESTAT", TRUE)
    /\ clkrdy
    /\ UNCHANGED <<mac, bank, mii, value>>

WriteMiregadr ==
    /\ Do("miregadr", "MIREGADR", FALSE)
    /\ miregadr' = Head(todo).phy
    /\ value' = "nothing"
    /\ UNCHANGED <<miird, busy, mird, mac, bank>>

(* Setting MICMD.MIIRD starts a read of the PHY.                           *)
WriteMicmd ==
    /\ Do("micmd", "MICMD", FALSE)
    /\ miird' = Head(todo).on
    /\ busy' = (busy \/ (Head(todo).on /\ ~miird))
    /\ UNCHANGED <<miregadr, mird, mac, bank, value>>

(* Mutant: the loop waits for the busy bit to be set.                      *)
PollBusyInverted ==
    /\ Do("poll_busy", "MISTAT", TRUE)
    /\ busy
    /\ UNCHANGED <<mac, bank, mii, value>>

(* The read of MISTAT that ends the loop; a wrong byte may say anything.   *)
PollBusy ==
    /\ Do("poll_busy", "MISTAT", TRUE)
    /\ busy => ~(Reached("MISTAT") = "MISTAT" /\ ReadsWell("MISTAT"))
    /\ UNCHANGED <<mac, bank, mii, value>>

ReadMird ==
    /\ Do("read_mird", "MIRD", TRUE)
    /\ value' = IF Reached("MIRD") = "MIRD" /\ ReadsWell("MIRD") /\ ~busy
                THEN mird ELSE "garbage"
    /\ UNCHANGED <<mac, bank, mii>>

(* is_full_duplex, from what was read of PHCON1, decides the rest.         *)
UseDuplex ==
    /\ ~asserted
    /\ todo = << Other("duplex") >>
    /\ \E full \in IF value = "PHCON1" THEN {duplex} ELSE BOOLEAN :
          todo' = MacInitRest(full)
    /\ UNCHANGED <<chip, currBank, value, stage, handle, asserted, access>>

-----------------------------------------------------------------------------
(* The chip and the interrupt.                                             *)

(* The oscillator is stable (after power-on), or the PHY clock runs again  *)
(* (after a reset command).                                                *)
ClockStable ==
    /\ ~phyclk
    /\ phyclk' = TRUE /\ clkrdy' = TRUE
    /\ UNCHANGED <<hwBank, rxen, duplex, fulldpx, miird, busy, miregadr, mird,
                   programmed, currBank, todo, value, stage, handle, asserted, access>>

(* The MII has read the PHY register.                                      *)
MiiDone ==
    /\ busy /\ phyclk
    /\ busy' = FALSE /\ mird' = miregadr
    /\ UNCHANGED <<hwBank, rxen, clkrdy, phyclk, duplex, fulldpx, miird, miregadr,
                   programmed, currBank, todo, value, stage, handle, asserted, access>>

(* A frame arrives and INT falls: the interrupt notifies the packet task.  *)
(* vTaskNotifyGiveFromISR asserts that there is one.  (Only in the         *)
(* application is there such a task.)                                      *)
FrameInterrupt ==
    /\ stage # "any" /\ rxen /\ {"EIE", "MACON1"} \subseteq programmed
    /\ ~asserted
    /\ asserted' = ~handle
    /\ UNCHANGED <<chip, currBank, todo, value, stage, handle, access>>

Driver ==
    \/ SoftReset \/ CallInit \/ CallHwRev \/ CallBegin \/ CallReadMac \/ CallEnd
    \/ CreatePacketTask \/ CreateIpTask \/ CreateQueues \/ StartScheduler
    \/ SelectBank \/ WriteReg \/ SetBits \/ SetRxen \/ ReadOrClear \/ PollClock
    \/ WriteMiregadr \/ WriteMicmd \/ PollBusy \/ ReadMird \/ UseDuplex

Next == Driver \/ ClockStable \/ MiiDone \/ FrameInterrupt

Spec == Init /\ [][Next]_vars

(* The program is the only thing that runs; the clock starts and the MII   *)
(* finishes.                                                               *)
FairSpec == Spec /\ WF_vars(Driver) /\ WF_vars(ClockStable) /\ WF_vars(MiiDone)

-----------------------------------------------------------------------------
(* Properties.                                                             *)

(* Every access reaches the register that the code names, whatever calls   *)
(* were made before it, resets included: no function relies on a bank it   *)
(* has not selected ("TODO refactor : keep bank ID together with register  *)
(* name", enc28j60.c:43).                                                  *)
RightRegister == access.got = access.want

(* The copy of the bank never makes a read take a dummy byte for the value *)
(* or a value for a dummy byte, although enc28_do_soft_reset does not      *)
(* update it.                                                              *)
DummyByteSkipped == access.well

(* enc28_do_read_phy_register returns the register it was asked for, never *)
(* the result of an earlier command or bytes read too early.               *)
PhyValueIsFresh == value \in {"nothing", miregadr}

(* The application receives only with a chip that is set up: ring,         *)
(* filters, read pointer, lengths, gaps and address are written, and the   *)
(* MAC has the duplex mode that was read from the PHY: it is in full       *)
(* duplex only if the PHY is, and in half duplex, with the gap that goes   *)
(* with it, only if the PHY is, unless the "set bits" command of           *)
(* enc28j60.c:170 left MACON3 alone (see MacIsSetUp).                      *)
ReadyWhenReceiving ==
    rxen /\ stage # "any" =>
            /\ {"ERXST", "ERXND", "ERXRDPT", "ERXFCON", "ERDPT", "MAMXFL", "MABBIPG",
                "MAIPGL", "MAC_ADD"} \subseteq programmed
            /\ fulldpx => duplex
            /\ "MACON3" \in programmed /\ duplex => fulldpx
            /\ duplex \/ "MAIPGH" \in programmed

(* "poll ESTAT.CLKRDY before initialising MAC address" (enc28j60.c:248):   *)
(* the application leaves MAC and MII alone until ESTAT.CLKRDY is set,     *)
(* also when it starts before the oscillator is stable.                    *)
MacNeedsClock == stage # "any" => (access.got \in MacOrMii => access.clkrdy)

(* "MAC initialization" (enc28j60.c:252): the MAC has all of its modes     *)
(* when frames are received.  False: MACON1, MACON3 and MACON4 are written *)
(* with a command that need not work on them.                              *)
MacIsSetUp ==
    rxen /\ stage # "any" => {"MACON1", "MACON3", "MACON4"} \subseteq programmed

(* A read of the PHY is started only when the PHY is ready.  False: after  *)
(* the reset command CLKRDY says so although it is not (errata item 1).    *)
PhyIsReady == busy /\ stage # "any" => phyclk

(* configASSERT( xTaskToNotify ) in vTaskGenericNotifyGiveFromISR: the     *)
(* interrupt finds a task to notify.  False: reception is enabled          *)
(* (enc28j60.c:646) before the task is created (stm32_network_app.c:107).  *)
NotifiedTaskExists == ~asserted

(* The two unbounded polling loops end and the application gets to its     *)
(* scheduler, unless the assertion in the interrupt stops it.              *)
BootCompletes == stage = "start" ~> (stage = "running" \/ asserted)
=============================================================================
