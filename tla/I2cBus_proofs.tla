---------------------------- MODULE I2cBus_proofs ----------------------------
(***************************************************************************)
(* Proofs about I2cBus, for any number of threads and any devices: its     *)
(* types; what the bus remembers of the selected slave is true; and        *)
(* transfers reach the slave they were meant for as long as SMBus calls to *)
(* different slaves do not overlap.                                        *)
(***************************************************************************)
EXTENDS I2cBus, TLAPS

(* A thread is on the path of its device's method.                          *)
PathFits ==
  \A t \in Threads :
    /\ at[t] = "plain" => Device[call[t].dev].method = "plain"
    /\ InSmbus(t) => Device[call[t].dev].method = "smbus"

TypeInv == TypeOK /\ PathFits

(* Device addresses are not 0, the value that stands for no slave.          *)
LEMMA AddrType ==
  ASSUME TypeOK, NEW t \in Threads
  PROVE  /\ call[t] \in Calls
         /\ call[t].dev \in Devices
         /\ call[t].len \in Nat
         /\ Addr(t) \in Addrs /\ Addr(t) \in Nat \ {0}
         /\ Device[call[t].dev].iaddr_bytes \in Nat
         /\ Device[call[t].dev].method \in {"plain", "smbus"}
<1>1. call[t] \in Calls
  BY DEF TypeOK
<1>2. call[t].dev \in Devices /\ call[t].len \in Lengths
  BY <1>1 DEF Calls
<1>3. call[t].len \in Nat
  BY <1>2, BusAssumption
<1>4. Addr(t) \in Addrs
  BY <1>2 DEF Addr, Addrs
<1>5. Device[call[t].dev] \in Infos
  BY <1>2, BusAssumption
<1>q. QED
  BY <1>1, <1>2, <1>3, <1>4, <1>5 DEF Infos, Addr

(* A block has at most 32 bytes.                                            *)
LEMMA BlockType ==
  ASSUME NEW len \in Nat
  PROVE  BlockLength(len) \in 0 .. 32
<1>1. len % 256 \in 0 .. 255
  OBVIOUS
<1>q. QED
  BY <1>1 DEF BlockLength

(* A call that returns leaves a well-formed outcome.                        *)
LEMMA ReturnType ==
  ASSUME TypeInv, NEW t \in Threads,
         NEW ret \in Int, NEW bytes \in Nat, NEW reached \in Addrs \cup {0},
         Device[call[t].dev].method = "smbus" => bytes <= 32,
         Return(t, ret, bytes, reached),
         UNCHANGED <<opened, plain_ok, mixed>>,
         last_slave_addr_' \in Addrs \cup {0}, slave' \in Addrs \cup {0}
  PROVE  TypeInv'
<1>1. Outcome(call[t], ret, bytes, reached) \in Outcomes
  <2>1. TakenAsDone(call[t], ret) \in BOOLEAN
    BY DEF TakenAsDone
  <2>q. QED
    BY <2>1 DEF Outcome, Outcomes
<1>2. /\ at' \in [Threads -> Places]
      /\ call' \in [Threads -> Calls]
      /\ done' \in [Threads -> Outcomes]
  BY <1>1 DEF Return, TypeInv, TypeOK, Places
<1>3. \A s \in Threads :
        Device[call'[s].dev].method = "smbus" => done'[s].bytes <= 32
  BY <1>1 DEF Return, TypeInv, TypeOK, Outcome
<1>4. PathFits'
  BY DEF PathFits, InSmbus, Return, TypeInv, TypeOK
<1>q. QED
  BY <1>2, <1>3, <1>4 DEF TypeInv, TypeOK

(* A call that goes on keeps the types.                                     *)
LEMMA MoveType ==
  ASSUME TypeInv, NEW t \in Threads,
         NEW from \in {"compare", "select", "remember", "transfer"},
         NEW to \in {"compare", "select", "remember", "transfer"},
         Move(t, from, to),
         UNCHANGED <<opened, plain_ok, mixed>>,
         last_slave_addr_' \in Addrs \cup {0}, slave' \in Addrs \cup {0}
  PROVE  TypeInv'
<1>1. at' \in [Threads -> Places]
  BY DEF Move, TypeInv, TypeOK, Places
<1>2. PathFits'
  BY DEF PathFits, InSmbus, Move, TypeInv, TypeOK
<1>q. QED
  BY <1>1, <1>2 DEF Move, TypeInv, TypeOK

(* Types are right in every state: for any devices, an SMBus call moves at   *)
(* most the 32 bytes of a block (i2c.h:157).                                *)
THEOREM TypeCorrect == Spec => [](TypeOK /\ PathFits)
<1>1. Init => TypeInv
  <2> SUFFICES ASSUME Init PROVE TypeInv
    OBVIOUS
  <2>1. PICK c \in Calls : call = [t \in Threads |-> c]
    BY DEF Init
  <2>2. Nothing \in Outcomes /\ Nothing.bytes = 0
    BY DEF Nothing, Outcomes
  <2>3. /\ at \in [Threads -> Places]
        /\ call \in [Threads -> Calls]
        /\ done \in [Threads -> Outcomes]
    BY <2>1, <2>2 DEF Init, Places
  <2>4. \A t \in Threads : done[t].bytes <= 32
    <3> SUFFICES ASSUME NEW t \in Threads PROVE done[t].bytes <= 32
      OBVIOUS
    <3>1. done[t] = Nothing
      BY DEF Init
    <3>2. done[t].bytes \in Nat /\ done[t].bytes = 0
      BY <2>2, <3>1
    <3>q. QED
      BY <3>2
  <2>5. PathFits
    BY DEF Init, PathFits, InSmbus
  <2>q. QED
    BY <2>3, <2>4, <2>5 DEF Init, TypeInv, TypeOK
<1>2. TypeInv /\ [Next]_vars => TypeInv'
  <2> SUFFICES ASSUME TypeInv, [Next]_vars PROVE TypeInv'
    OBVIOUS
  <2>0. TypeOK
    BY DEF TypeInv
  <2>1. ASSUME NEW t \in Threads, NEW c \in Calls, NEW iaddr \in Iaddrs,
               Request(t, c, iaddr)
        PROVE  TypeInv'
    <3>1. Nothing \in Outcomes /\ Nothing.bytes = 0
      BY DEF Nothing, Outcomes
    <3>2. c.dev \in Devices /\ Device[c.dev].method \in {"plain", "smbus"}
      BY BusAssumption DEF Calls, Infos
    <3>3. /\ at' \in [Threads -> Places]
          /\ call' \in [Threads -> Calls]
          /\ done' \in [Threads -> Outcomes]
      BY <2>0, <2>1, <3>1 DEF Request, TypeOK, Places
    <3>4. mixed' \in BOOLEAN
      BY <2>0, <2>1 DEF Request, TypeOK
    <3>5. \A s \in Threads :
            Device[call'[s].dev].method = "smbus" => done'[s].bytes <= 32
      BY <2>0, <2>1, <3>1 DEF Request, TypeOK
    <3>6. PathFits'
      BY <2>1, <3>2 DEF PathFits, InSmbus, Request, TypeInv, TypeOK
    <3>q. QED
      BY <2>0, <2>1, <3>3, <3>4, <3>5, <3>6 DEF Request, TypeInv, TypeOK
  <2>2. ASSUME NEW t \in Threads, PlainRW(t)
        PROVE  TypeInv'
    <3> DEFINE size == IF call[t].op = "write"
                         THEN Device[call[t].dev].iaddr_bytes + call[t].len
                         ELSE call[t].len
    <3>1. size \in Nat /\ size % 65536 \in Int
      BY <2>0, AddrType
    <3>2. Device[call[t].dev].method = "plain"
      BY <2>2 DEF PlainRW, TypeInv, PathFits
    <3>3. call[t].len \in Nat /\ Addr(t) \in Addrs
      BY <2>0, AddrType
    <3>4. last_slave_addr_' \in Addrs \cup {0} /\ slave' \in Addrs \cup {0}
          /\ UNCHANGED <<opened, plain_ok, mixed>>
      BY <2>0, <2>2 DEF PlainRW, TypeOK
    <3>5. CASE Return(t, size % 65536, call[t].len, Addr(t))
      BY <3>1, <3>2, <3>3, <3>4, <3>5, ReturnType
    <3>6. CASE Return(t, -1, 0, 0)
      BY <3>4, <3>6, ReturnType
    <3>q. QED
      BY <2>2, <3>5, <3>6 DEF PlainRW
  <2>3. ASSUME NEW t \in Threads, Compare(t)
        PROVE  TypeInv'
    BY <2>0, <2>3, MoveType DEF Compare, TypeOK
  <2>4. ASSUME NEW t \in Threads, Select(t)
        PROVE  TypeInv'
    <3>1. last_slave_addr_' \in Addrs \cup {0} /\ slave' \in Addrs \cup {0}
          /\ UNCHANGED <<opened, plain_ok, mixed>>
      BY <2>0, <2>4, AddrType DEF Select, TypeOK
    <3>2. CASE Move(t, "select", "remember")
      BY <3>1, <3>2, MoveType
    <3>3. CASE Return(t, -1, 0, 0)
      BY <3>1, <3>3, ReturnType
    <3>q. QED
      BY <2>4, <3>2, <3>3 DEF Select
  <2>5. ASSUME NEW t \in Threads, Remember(t)
        PROVE  TypeInv'
    <3>1. last_slave_addr_' \in Addrs \cup {0} /\ slave' \in Addrs \cup {0}
      BY <2>0, <2>5, AddrType DEF Remember, TypeOK
    <3>q. QED
      BY <2>5, <3>1, MoveType DEF Remember
  <2>6. ASSUME NEW t \in Threads, SmbusRW(t)
        PROVE  TypeInv'
    <3> DEFINE n == BlockLength(call[t].len)
    <3>1. n \in 0 .. 32 /\ SmbusSize(call[t], n) \in Int
      BY <2>0, AddrType, BlockType DEF SmbusSize
    <3>2. last_slave_addr_' \in Addrs \cup {0} /\ slave' \in Addrs \cup {0}
          /\ slave \in Addrs \cup {0} /\ UNCHANGED <<opened, plain_ok, mixed>>
      BY <2>0, <2>6 DEF SmbusRW, TypeOK
    <3>3. CASE Return(t, SmbusSize(call[t], n), n, slave)
      BY <3>1, <3>2, <3>3, ReturnType
    <3>4. CASE Return(t, -1, 0, 0)
      BY <3>2, <3>4, ReturnType
    <3>q. QED
      BY <2>6, <3>3, <3>4 DEF SmbusRW
  <2>7. ASSUME NEW funcs \in BOOLEAN, InitImpl(funcs)
        PROVE  TypeInv'
    BY <2>7 DEF InitImpl, TypeInv, TypeOK, PathFits, InSmbus
  <2>8. CASE UNCHANGED vars
    BY <2>8 DEF vars, TypeInv, TypeOK, PathFits, InSmbus
  <2>q. QED
    BY <2>1, <2>2, <2>3, <2>4, <2>5, <2>6, <2>7, <2>8 DEF Next, Write, Read
<1>q. QED
  BY <1>1, <1>2, PTL DEF Spec, TypeInv

(* What SMBus calls rely on while calls to different slaves do not overlap:  *)
(* the threads inside agree on the slave, it is the selected one from the    *)
(* selection on, and last_slave_addr_ is late only while one remembers.     *)
Agree == \A s, t \in Threads : InSmbus(s) /\ InSmbus(t) => Addr(s) = Addr(t)

Selected == \A t \in Threads : at[t] \in {"remember", "transfer"} => slave = Addr(t)

CacheIsLate == \E t \in Threads : at[t] = "remember"

Coherent == mixed \/ (Agree /\ Selected /\ (CacheIsLate \/ last_slave_addr_ \in {0, slave}))

(* A call that leaves the bus, without having changed anything on it, leaves *)
(* the others in agreement.                                                 *)
LEMMA LeaveKeeps ==
  ASSUME TypeInv, Coherent, NEW t \in Threads, NEW ret, NEW bytes, NEW reached,
         at[t] # "remember",
         Return(t, ret, bytes, reached),
         UNCHANGED <<last_slave_addr_, slave, mixed>>
  PROVE  Coherent'
<1>1. \A s \in Threads : at'[s] # "idle" => s # t /\ at'[s] = at[s] /\ call'[s] = call[s]
  BY DEF Return, TypeInv, TypeOK
<1>2. Agree => Agree'
  BY <1>1 DEF Agree, InSmbus, Addr
<1>3. Selected => Selected'
  BY <1>1 DEF Selected, Addr
<1>4. CacheIsLate => CacheIsLate'
  BY DEF CacheIsLate, Return, TypeInv, TypeOK
<1>q. QED
  BY <1>2, <1>3, <1>4 DEF Coherent

(* Every step keeps them coherent.                                          *)
LEMMA CoherentStep ==
  ASSUME TypeInv, Coherent, [Next]_vars
  PROVE  Coherent'
<1>0. TypeOK /\ at \in [Threads -> Places]
  BY DEF TypeInv, TypeOK
<1>1. ASSUME NEW t \in Threads, NEW c \in Calls, NEW iaddr \in Iaddrs, Request(t, c, iaddr)
      PROVE  Coherent'
  <2> SUFFICES ASSUME ~mixed' PROVE Coherent'
    BY DEF Coherent
  <2>1. ~mixed /\ Agree /\ Selected /\ (CacheIsLate \/ last_slave_addr_ \in {0, slave})
    BY <1>1 DEF Request, Coherent
  <2>2. /\ at[t] = "idle" /\ at'[t] \in {"idle", "plain", "compare"}
        /\ \A s \in Threads : s # t => at'[s] = at[s] /\ call'[s] = call[s]
        /\ call'[t] = c /\ UNCHANGED <<last_slave_addr_, slave>>
    BY <1>0, <1>1 DEF Request, TypeOK
  <2>3. \A s \in Threads \ {t} :
          at'[t] = "compare" /\ InSmbus(s) => Addr(s) = Device[c.dev].addr
    BY <1>1 DEF Request
  <2>4. Agree'
    BY <2>1, <2>2, <2>3 DEF Agree, InSmbus, Addr
  <2>5. Selected'
    BY <2>1, <2>2 DEF Selected, Addr
  <2>6. CacheIsLate => CacheIsLate'
    BY <2>2 DEF CacheIsLate
  <2>q. QED
    BY <2>1, <2>2, <2>4, <2>5, <2>6 DEF Coherent
<1>2. ASSUME NEW t \in Threads, PlainRW(t)
      PROVE  Coherent'
  BY <1>2, LeaveKeeps DEF PlainRW
<1>3. ASSUME NEW t \in Threads, Compare(t)
      PROVE  Coherent'
  <2>1. /\ UNCHANGED <<last_slave_addr_, slave, mixed, call>>
        /\ at[t] = "compare" /\ at'[t] \in {"select", "transfer"}
        /\ at'[t] = "transfer" => last_slave_addr_ = Addr(t)
        /\ \A s \in Threads : s # t => at'[s] = at[s]
    BY <1>0, <1>3 DEF Compare, Move
  <2>2. Agree => Agree'
    BY <2>1 DEF Agree, InSmbus, Addr
  <2>3. CacheIsLate => CacheIsLate'
    BY <2>1 DEF CacheIsLate
  <2>4. /\ Agree /\ Selected /\ (CacheIsLate \/ last_slave_addr_ \in {0, slave})
        /\ at'[t] = "transfer"
        => slave = Addr(t)
    <3> SUFFICES ASSUME Agree, Selected, CacheIsLate \/ last_slave_addr_ \in {0, slave},
                        at'[t] = "transfer"
                 PROVE  slave = Addr(t)
      OBVIOUS
    <3>1. CASE CacheIsLate
      BY <2>1, <3>1 DEF CacheIsLate, Agree, Selected, InSmbus
    <3>2. CASE last_slave_addr_ \in {0, slave}
      BY <1>0, <2>1, <3>2, AddrType
    <3>q. QED
      BY <3>1, <3>2
  <2>5. Agree /\ Selected /\ (CacheIsLate \/ last_slave_addr_ \in {0, slave}) => Selected'
    BY <2>1, <2>4 DEF Selected, Addr
  <2>q. QED
    BY <2>1, <2>2, <2>3, <2>5 DEF Coherent
<1>4. ASSUME NEW t \in Threads, Select(t)
      PROVE  Coherent'
  <2>1. CASE at[t] = "select" /\ Return(t, -1, 0, 0) /\ UNCHANGED slave
    BY <1>4, <2>1, LeaveKeeps DEF Select
  <2>2. CASE Move(t, "select", "remember") /\ slave' = Addr(t)
    <3>1. /\ UNCHANGED <<last_slave_addr_, mixed, call>> /\ slave' = Addr(t)
          /\ at[t] = "select" /\ at'[t] = "remember"
          /\ \A s \in Threads : s # t => at'[s] = at[s]
      BY <1>0, <1>4, <2>2 DEF Select, Move
    <3>2. Agree => Agree' /\ Selected'
      BY <3>1 DEF Agree, Selected, InSmbus, Addr
    <3>3. CacheIsLate'
      BY <3>1 DEF CacheIsLate
    <3>q. QED
      BY <3>1, <3>2, <3>3 DEF Coherent
  <2>q. QED
    BY <1>4, <2>1, <2>2 DEF Select
<1>5. ASSUME NEW t \in Threads, Remember(t)
      PROVE  Coherent'
  <2>1. /\ UNCHANGED <<slave, mixed, call>> /\ last_slave_addr_' = Addr(t)
        /\ at[t] = "remember" /\ at'[t] = "transfer"
        /\ \A s \in Threads : s # t => at'[s] = at[s]
    BY <1>0, <1>5 DEF Remember, Move
  <2>2. Agree => Agree'
    BY <2>1 DEF Agree, InSmbus, Addr
  <2>3. Selected => Selected' /\ last_slave_addr_' = slave'
    BY <2>1 DEF Selected, Addr
  <2>q. QED
    BY <2>1, <2>2, <2>3 DEF Coherent
<1>6. ASSUME NEW t \in Threads, SmbusRW(t)
      PROVE  Coherent'
  BY <1>6, LeaveKeeps DEF SmbusRW
<1>7. ASSUME NEW funcs \in BOOLEAN, InitImpl(funcs)
      PROVE  Coherent'
  BY <1>7 DEF InitImpl, Coherent, Agree, Selected, InSmbus
<1>8. CASE UNCHANGED vars
  BY <1>8 DEF vars, Coherent, Agree, Selected, CacheIsLate, InSmbus, Addr
<1>q. QED
  BY <1>1, <1>2, <1>3, <1>4, <1>5, <1>6, <1>7, <1>8 DEF Next, Write, Read

(* The bus's memory of the selected slave is true, for any devices, threads  *)
(* and failures, as long as SMBus calls to different slaves do not overlap   *)
(* (i2c.h:160-163, i2c.cc:54-61).                                           *)
THEOREM CacheTrue == Spec => []CacheIsTrue
<1>1. Init => Coherent
  BY DEF Init, Coherent, Agree, Selected, InSmbus
<1>2. TypeInv /\ Coherent /\ [Next]_vars => Coherent'
  BY CoherentStep
<1>3. Coherent => CacheIsTrue
  BY DEF Coherent, CacheIsLate, CacheIsTrue
<1>q. QED
  BY TypeCorrect, <1>1, <1>2, <1>3, PTL DEF Spec, TypeInv

(* What a returned transfer reached was the slave of its call, and stays so  *)
(* while others use the bus (i2c.h:119-196).                                *)
THEOREM Reaches == Spec => []ReachesItsSlave
<1>1. Init => Coherent /\ ReachesItsSlave
  BY DEF Init, Coherent, Agree, Selected, InSmbus, ReachesItsSlave, Nothing
<1>2. TypeInv /\ Coherent /\ ReachesItsSlave /\ [Next]_vars => ReachesItsSlave'
  <2> SUFFICES ASSUME TypeInv, Coherent, ReachesItsSlave, [Next]_vars
               PROVE  ReachesItsSlave'
    OBVIOUS
  <2>0. TypeOK /\ at \in [Threads -> Places] /\ done \in [Threads -> Outcomes]
    BY DEF TypeInv, TypeOK
  <2>1. ASSUME NEW t \in Threads, NEW ret, NEW bytes, NEW reached,
               Return(t, ret, bytes, reached), UNCHANGED mixed,
               \/ bytes = 0
               \/ reached = Addr(t)
               \/ mixed /\ Device[call[t].dev].method # "plain"
        PROVE  ReachesItsSlave'
    <3>1. \A s \in Threads : s # t => at'[s] = at[s] /\ done'[s] = done[s]
      BY <2>0, <2>1 DEF Return
    <3>2. call' = call /\ done'[t].bytes = bytes /\ done'[t].slave = reached
      BY <2>0, <2>1 DEF Return, Outcome
    <3>q. QED
      BY <2>1, <3>1, <3>2 DEF ReachesItsSlave, Addr
  <2>2. ASSUME NEW t \in Threads, at'[t] # "idle", UNCHANGED <<call, done, mixed>>,
               \A s \in Threads : s # t => at'[s] = at[s]
        PROVE  ReachesItsSlave'
    BY <2>2 DEF ReachesItsSlave, Addr
  <2>3. ASSUME NEW t \in Threads, NEW c \in Calls, NEW iaddr \in Iaddrs,
               Request(t, c, iaddr)
        PROVE  ReachesItsSlave'
    <3>1. /\ done'[t].bytes = 0 /\ (mixed => mixed')
          /\ \A s \in Threads : s # t => /\ at'[s] = at[s] /\ call'[s] = call[s]
                                         /\ done'[s] = done[s]
      BY <2>0, <2>3 DEF Request, Nothing, TypeOK
    <3>q. QED
      BY <3>1 DEF ReachesItsSlave, Addr
  <2>4. ASSUME NEW t \in Threads, PlainRW(t)
        PROVE  ReachesItsSlave'
    BY <2>1, <2>4 DEF PlainRW
  <2>5. ASSUME NEW t \in Threads, Compare(t) \/ Remember(t)
        PROVE  ReachesItsSlave'
    <3>1. /\ at'[t] # "idle" /\ UNCHANGED <<call, done, mixed>>
          /\ \A s \in Threads : s # t => at'[s] = at[s]
      BY <2>0, <2>5 DEF Compare, Remember, Move
    <3>q. QED
      BY <2>2, <3>1
  <2>6. ASSUME NEW t \in Threads, Select(t)
        PROVE  ReachesItsSlave'
    <3>1. CASE Return(t, -1, 0, 0) /\ UNCHANGED mixed
      BY <2>1, <3>1
    <3>2. CASE Move(t, "select", "remember") /\ UNCHANGED mixed
      <4>1. /\ at'[t] # "idle" /\ UNCHANGED <<call, done, mixed>>
            /\ \A s \in Threads : s # t => at'[s] = at[s]
        BY <2>0, <3>2 DEF Move
      <4>q. QED
        BY <2>2, <4>1
    <3>q. QED
      BY <2>6, <3>1, <3>2 DEF Select
  <2>7. ASSUME NEW t \in Threads, SmbusRW(t)
        PROVE  ReachesItsSlave'
    <3>1. slave = Addr(t) \/ mixed
      BY <2>7 DEF SmbusRW, Coherent, Selected
    <3>2. Device[call[t].dev].method # "plain"
      BY <2>7 DEF SmbusRW, TypeInv, PathFits, InSmbus
    <3>q. QED
      BY <2>1, <2>7, <3>1, <3>2 DEF SmbusRW
  <2>8. ASSUME NEW funcs \in BOOLEAN, InitImpl(funcs)
        PROVE  ReachesItsSlave'
    BY <2>8 DEF InitImpl, ReachesItsSlave, Addr
  <2>9. CASE UNCHANGED vars
    BY <2>9 DEF vars, ReachesItsSlave, Addr
  <2>q. QED
    BY <2>3, <2>4, <2>5, <2>6, <2>7, <2>8, <2>9 DEF Next, Write, Read
<1>3. TypeInv /\ Coherent /\ [Next]_vars => Coherent'
  BY CoherentStep
<1>q. QED
  BY TypeCorrect, <1>1, <1>2, <1>3, PTL DEF Spec, TypeInv

(* A device without internal addresses is asked for one byte.               *)
OneByte ==
  \A t \in Threads :
    InSmbus(t) /\ Device[call[t].dev].iaddr_bytes = 0 => call[t].len = 1

(* A call that fails is not taken as done.                                  *)
LEMMA FailedIsNotDone ==
  ASSUME TypeInv, NEW t \in Threads
  PROVE  ~TakenAsDone(call[t], -1)
<1>1. call[t].len \in Nat
  BY AddrType DEF TypeInv
<1>q. QED
  BY <1>1 DEF TakenAsDone

(* A call taken as done moved every byte it was given, for any devices and   *)
(* lengths (i2c_adapter.cc:59, 145; i2c.h:145, 179, 194).                   *)
THEOREM DoneIsWhole == Spec => []CompleteIsWhole
<1>1. Init => OneByte /\ CompleteIsWhole
  BY DEF Init, OneByte, CompleteIsWhole, InSmbus, Nothing
<1>2. TypeInv /\ OneByte /\ CompleteIsWhole /\ [Next]_vars => OneByte' /\ CompleteIsWhole'
  <2> SUFFICES ASSUME TypeInv, OneByte, CompleteIsWhole, [Next]_vars
               PROVE  OneByte' /\ CompleteIsWhole'
    OBVIOUS
  <2>0. TypeOK /\ at \in [Threads -> Places] /\ done \in [Threads -> Outcomes]
    BY DEF TypeInv, TypeOK
  <2>1. ASSUME NEW t \in Threads, NEW ret, NEW bytes, NEW reached,
               Return(t, ret, bytes, reached),
               TakenAsDone(call[t], ret) => bytes = call[t].len
        PROVE  OneByte' /\ CompleteIsWhole'
    <3>1. \A s \in Threads : s # t => at'[s] = at[s] /\ done'[s] = done[s]
      BY <2>0, <2>1 DEF Return
    <3>2. /\ call' = call /\ at'[t] = "idle" /\ done'[t].bytes = bytes
          /\ done'[t].complete = TakenAsDone(call[t], ret)
      BY <2>0, <2>1 DEF Return, Outcome
    <3>q. QED
      BY <2>1, <3>1, <3>2 DEF OneByte, CompleteIsWhole, InSmbus
  <2>2. ASSUME NEW t \in Threads, InSmbus(t), UNCHANGED <<call, done>>,
               \A s \in Threads : s # t => at'[s] = at[s]
        PROVE  OneByte' /\ CompleteIsWhole'
    BY <2>2 DEF OneByte, CompleteIsWhole, InSmbus
  <2>3. ASSUME NEW t \in Threads, NEW c \in Calls, NEW iaddr \in Iaddrs,
               Request(t, c, iaddr)
        PROVE  OneByte' /\ CompleteIsWhole'
    <3>1. /\ ~done'[t].complete
          /\ \A s \in Threads : s # t => /\ at'[s] = at[s] /\ call'[s] = call[s]
                                         /\ done'[s] = done[s]
      BY <2>0, <2>3 DEF Request, Nothing, TypeOK
    <3>2. call'[t] = c
          /\ (InSmbus(t)' /\ Device[c.dev].iaddr_bytes = 0 => c.len = 1)
      <4>1. Device[c.dev].method \in {"plain", "smbus"}
        BY BusAssumption DEF Calls, Infos
      <4>q. QED
        BY <2>0, <2>3, <4>1 DEF Request, InSmbus, TypeOK
    <3>q. QED
      BY <3>1, <3>2 DEF OneByte, CompleteIsWhole, InSmbus
  <2>4. ASSUME NEW t \in Threads, PlainRW(t)
        PROVE  OneByte' /\ CompleteIsWhole'
    <3> DEFINE size == IF call[t].op = "write"
                         THEN Device[call[t].dev].iaddr_bytes + call[t].len
                         ELSE call[t].len
    <3>1. CASE Return(t, size % 65536, call[t].len, Addr(t))
      BY <2>1, <3>1
    <3>2. CASE Return(t, -1, 0, 0)
      BY <2>1, <3>2, FailedIsNotDone
    <3>q. QED
      BY <2>4, <3>1, <3>2 DEF PlainRW
  <2>5. ASSUME NEW t \in Threads, Compare(t) \/ Remember(t) \/ Move(t, "select", "remember")
        PROVE  OneByte' /\ CompleteIsWhole'
    <3>1. /\ InSmbus(t) /\ UNCHANGED <<call, done>>
          /\ \A s \in Threads : s # t => at'[s] = at[s]
      BY <2>0, <2>5 DEF Compare, Remember, Move, InSmbus
    <3>q. QED
      BY <2>2, <3>1
  <2>6. ASSUME NEW t \in Threads, Select(t)
        PROVE  OneByte' /\ CompleteIsWhole'
    <3>1. CASE Return(t, -1, 0, 0)
      BY <2>1, <3>1, FailedIsNotDone
    <3>q. QED
      BY <2>5, <2>6, <3>1 DEF Select
  <2>7. ASSUME NEW t \in Threads, SmbusRW(t)
        PROVE  OneByte' /\ CompleteIsWhole'
    <3> DEFINE n   == BlockLength(call[t].len)
               ret == SmbusSize(call[t], n)
    <3>1. CASE Return(t, -1, 0, 0)
      BY <2>1, <3>1, FailedIsNotDone
    <3>2. CASE Return(t, ret, n, slave)
      <4>1. TakenAsDone(call[t], ret) /\ call[t].op = "read" => n = call[t].len
        BY DEF TakenAsDone, SmbusSize
      <4>2. TakenAsDone(call[t], ret) /\ call[t].op = "write" => call[t].len = 1
        <5>1. SUFFICES ASSUME ret > 0, call[t].op = "write" PROVE call[t].len = 1
          BY DEF TakenAsDone
        <5>2. Device[call[t].dev].iaddr_bytes \in Nat
          BY <2>0, AddrType
        <5>3. Device[call[t].dev].iaddr_bytes = 0
          BY <5>1, <5>2 DEF SmbusSize
        <5>q. QED
          BY <2>7, <5>3 DEF SmbusRW, OneByte, InSmbus
      <4>3. BlockLength(1) = 1
        BY DEF BlockLength
      <4>4. TakenAsDone(call[t], ret) => n = call[t].len
        BY <4>1, <4>2, <4>3 DEF TakenAsDone
      <4>q. QED
        BY <2>1, <3>2, <4>4
    <3>q. QED
      BY <2>7, <3>1, <3>2 DEF SmbusRW
  <2>8. ASSUME NEW funcs \in BOOLEAN, InitImpl(funcs)
        PROVE  OneByte' /\ CompleteIsWhole'
    BY <2>8 DEF InitImpl, OneByte, CompleteIsWhole, InSmbus
  <2>9. CASE UNCHANGED vars
    BY <2>9 DEF vars, OneByte, CompleteIsWhole, InSmbus
  <2>q. QED
    BY <2>3, <2>4, <2>5, <2>6, <2>7, <2>8, <2>9 DEF Next, Write, Read
<1>q. QED
  BY TypeCorrect, <1>1, <1>2, PTL DEF Spec, TypeInv

=============================================================================
