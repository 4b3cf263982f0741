------------------------------- MODULE I2cBus -------------------------------
(***************************************************************************)
(* An I2C bus (src/bus/i2c) and the adapters (src/bus_adapter/i2c_adapter) *)
(* through which two threads read and write the devices on it.             *)
(*                                                                         *)
(* A plain transfer is one ioctl that carries the address of its device.   *)
(* An SMBus transfer goes to the slave last selected on the open file, and *)
(* the bus remembers in last_slave_addr_ which that is, to select only     *)
(* when the device changes.  Every adapter holds the same bus, and nothing *)
(* makes the comparison, the selection and the transfer of a call one step.*)
(***************************************************************************)
EXTENDS Integers

CONSTANTS
  Threads,     \* threads that use the bus
  Devices,     \* devices on the bus, behind an adapter each
  Device,      \* I2cDeviceInfo and method_ of each of them
  Lengths,     \* lengths of the values callers read and write
  Iaddrs       \* internal addresses callers use

Infos ==
  [addr : Nat \ {0}, iaddr_bytes : Nat, tenbit : BOOLEAN, method : {"plain", "smbus"}]

ASSUME BusAssumption ==
  /\ Device \in [Devices -> Infos]
  /\ \A len \in Lengths : len \in Nat /\ 0 < len /\ len < 65536
  /\ Iaddrs \subseteq Nat

VARIABLES
  opened,             \* fd_ is that of an open file
  plain_ok,           \* func_ & I2C_FUNC_I2C
  last_slave_addr_,
  slave,              \* the slave selected on the open file, 0 for none
  at,                 \* where each thread is
  call,               \* its last call
  done,               \* what that call came to
  mixed               \* SMBus calls to two slaves have overlapped

vars == <<opened, plain_ok, last_slave_addr_, slave, at, call, done, mixed>>

Places == {"idle", "plain", "compare", "select", "remember", "transfer"}
Calls == [dev : Devices, op : {"read", "write"}, len : Lengths]

Addr(t) == Device[call[t].dev].addr

(* The places inside SmbusRW.                                               *)
InSmbus(t) == at[t] \in {"compare", "select", "remember", "transfer"}

----------------------------------------------------------------------------
(* The adapter                                                              *)

(* I2cInternalAddrCheck: the address fits the bytes the device has for it.   *)
InternalAddrCheck(nbytes, iaddr) == nbytes >= 8 \/ iaddr < 256 ^ nbytes

SmbusCheckFail(d) == Device[d].tenbit \/ Device[d].iaddr_bytes > 1

PlainCheckFail == ~plain_ok

Refused(d, iaddr) ==
  \/ ~InternalAddrCheck(Device[d].iaddr_bytes, iaddr)
  \/ IF Device[d].method = "plain" THEN PlainCheckFail ELSE SmbusCheckFail(d)

(* Mutant of TakenAsDone: a call counts as done when any byte was moved.     *)
TakenAsDone_AnyByte(c, ret) == ret > 0

(* The tests of ret_size after which the adapter delays and, for a register, *)
(* hands the value to the caller.                                           *)
TakenAsDone(c, ret) ==
  \/ c.op = "read" /\ ret = c.len
  \/ c.op = "write" /\ ret > 0

Outcome(c, ret, bytes, reached) ==
  [ret |-> ret, bytes |-> bytes, slave |-> reached, complete |-> TakenAsDone(c, ret)]

Nothing == [ret |-> 0, bytes |-> 0, slave |-> 0, complete |-> FALSE]

Return(t, ret, bytes, reached) ==
  /\ at' = [at EXCEPT ![t] = "idle"]
  /\ done' = [done EXCEPT ![t] = Outcome(call[t], ret, bytes, reached)]
  /\ UNCHANGED call

(* WriteImpl and ReadImpl, up to the first step on the bus.  Without an      *)
(* internal address SmbusRW asserts that one byte is asked for.             *)
Request(t, c, iaddr) ==
  LET d == Device[c.dev] IN
  /\ at[t] = "idle"
  /\ d.method = "smbus" /\ d.iaddr_bytes = 0 => c.len = 1
  /\ call' = [call EXCEPT ![t] = c]
  /\ done' = [done EXCEPT ![t] = Nothing]
  /\ at' = [at EXCEPT ![t] =
       IF Refused(c.dev, iaddr) THEN "idle"
       ELSE IF d.method = "plain" THEN "plain" ELSE "compare"]
  /\ mixed' = (mixed \/ \E o \in Threads \ {t} :
                           at'[t] = "compare" /\ InSmbus(o) /\ Addr(o) # d.addr)
  /\ UNCHANGED <<opened, plain_ok, last_slave_addr_, slave>>

Write(t, c, iaddr) == c.op = "write" /\ Request(t, c, iaddr)
Read(t, c, iaddr) == c.op = "read" /\ Request(t, c, iaddr)

----------------------------------------------------------------------------
(* The bus                                                                  *)

(* A message is the value, for a write behind the internal address, and what *)
(* is returned is its length.                                               *)
PlainRW(t) ==
  LET c    == call[t]
      size == IF c.op = "write" THEN Device[c.dev].iaddr_bytes + c.len ELSE c.len
  IN
  /\ at[t] = "plain"
  /\ \/ opened /\ Return(t, size % 65536, c.len, Addr(t))
     \/ Return(t, -1, 0, 0)
  /\ UNCHANGED <<opened, plain_ok, last_slave_addr_, slave, mixed>>

Move(t, from, to) == at[t] = from /\ at' = [at EXCEPT ![t] = to] /\ UNCHANGED <<call, done>>

Compare(t) ==
  /\ Move(t, "compare", IF last_slave_addr_ = Addr(t) THEN "transfer" ELSE "select")
  /\ UNCHANGED <<opened, plain_ok, last_slave_addr_, slave, mixed>>

(* Mutant of Select: the slave is remembered before it is selected.          *)
Select_RememberFirst(t) ==
  /\ last_slave_addr_' = Addr(t)
  /\ \/ /\ opened
        /\ Move(t, "select", "remember")
        /\ slave' = Addr(t)
     \/ /\ at[t] = "select"
        /\ Return(t, -1, 0, 0)
        /\ UNCHANGED slave
  /\ UNCHANGED <<opened, plain_ok, mixed>>

(* ioctl(fd_, I2C_SLAVE, ...) fails when the file is not open or the address *)
(* is taken.                                                                *)
Select(t) ==
  /\ \/ /\ opened
        /\ Move(t, "select", "remember")
        /\ slave' = Addr(t)
     \/ /\ at[t] = "select"
        /\ Return(t, -1, 0, 0)
        /\ UNCHANGED slave
  /\ UNCHANGED <<opened, plain_ok, last_slave_addr_, mixed>>

Remember(t) ==
  /\ Move(t, "remember", "transfer")
  /\ last_slave_addr_' = Addr(t)
  /\ UNCHANGED <<opened, plain_ok, slave, mixed>>

(* Mutant of BlockLength: the library passes on what it is given.            *)
BlockLength_Uncut(len) == len

(* A length is cut to 8 bits by the adapter and to 32 bytes by the library.  *)
BlockLength(len) == IF len % 256 > 32 THEN 32 ELSE len % 256

(* What a transfer of n bytes returns: i2c_smbus_write_i2c_block_data 0.     *)
SmbusSize(c, n) ==
  IF c.op = "write" /\ Device[c.dev].iaddr_bytes > 0 THEN 0 ELSE n

(* The transfer goes to the slave the file holds now.                       *)
SmbusRW(t) ==
  LET n == BlockLength(call[t].len) IN
  /\ at[t] = "transfer"
  /\ \/ n > 0 /\ Return(t, SmbusSize(call[t], n), n, slave)
     \/ Return(t, -1, 0, 0)
  /\ UNCHANGED <<opened, plain_ok, last_slave_addr_, slave, mixed>>

(* Mutant of InitImpl: last_slave_addr_ outlives the file it is about.       *)
InitImpl_KeepSlave(funcs) ==
  /\ \A t \in Threads : at[t] = "idle"
  /\ opened' = TRUE
  /\ plain_ok' = funcs
  /\ slave' = 0
  /\ UNCHANGED <<last_slave_addr_, at, call, done, mixed>>

(* The file is opened, again if it was open, between calls; a failing open   *)
(* changes nothing.  If the functions cannot be asked for, func_ keeps the -1 *)
(* of I2cResetThisBus, in which every bit is set.                           *)
InitImpl(funcs) ==
  /\ \A t \in Threads : at[t] = "idle"
  /\ opened' = TRUE
  /\ plain_ok' = funcs
  /\ last_slave_addr_' = 0
  /\ slave' = 0
  /\ UNCHANGED <<at, call, done, mixed>>

----------------------------------------------------------------------------

Init ==
  /\ opened = FALSE
  /\ plain_ok = FALSE
  /\ last_slave_addr_ = 0
  /\ slave = 0
  /\ at = [t \in Threads |-> "idle"]
  /\ \E c \in Calls : call = [t \in Threads |-> c]
  /\ done = [t \in Threads |-> Nothing]
  /\ mixed = FALSE

Next ==
  \/ \E t \in Threads, c \in Calls, iaddr \in Iaddrs : Write(t, c, iaddr) \/ Read(t, c, iaddr)
  \/ \E t \in Threads : PlainRW(t) \/ Compare(t) \/ Select(t) \/ Remember(t) \/ SmbusRW(t)
  \/ \E funcs \in BOOLEAN : InitImpl(funcs)

Spec == Init /\ [][Next]_vars

----------------------------------------------------------------------------
(* Properties                                                               *)

Addrs == {Device[d].addr : d \in Devices}

Outcomes == [ret : Int, bytes : Nat, slave : Addrs \cup {0}, complete : BOOLEAN]

(* Types, and: an SMBus block has at most 32 bytes.                         *)
TypeOK ==
  /\ opened \in BOOLEAN
  /\ plain_ok \in BOOLEAN
  /\ last_slave_addr_ \in Addrs \cup {0}
  /\ slave \in Addrs \cup {0}
  /\ at \in [Threads -> Places]
  /\ call \in [Threads -> Calls]
  /\ done \in [Threads -> Outcomes]
  /\ mixed \in BOOLEAN
  /\ \A t \in Threads : Device[call[t].dev].method = "smbus" => done[t].bytes <= 32

(* What last_slave_addr_ says stays true of the open file through selections *)
(* that fail and files that are opened anew, as long as SMBus calls to      *)
(* different slaves never overlap; it is late only while one remembers.     *)
CacheIsTrue ==
  ~mixed /\ (\A t \in Threads : at[t] # "remember") =>
    last_slave_addr_ \in {0, slave}

(* A transfer reaches the slave its caller asked for, whatever failed before *)
(* and whoever else used the bus, as long as SMBus calls to different slaves *)
(* never overlap.  A plain transfer does in any case.                       *)
ReachesItsSlave ==
  \A t \in Threads :
    /\ at[t] = "idle"
    /\ done[t].bytes > 0
    /\ mixed => Device[call[t].dev].method = "plain"
    => done[t].slave = Addr(t)

(* A call the adapter takes as done moved every byte it was given, although  *)
(* lengths are cut to 8 bits and blocks to 32 bytes on the way, and a block   *)
(* write does not say how many bytes it wrote.                              *)
CompleteIsWhole == \A t \in Threads : done[t].complete => done[t].bytes = call[t].len

=============================================================================
