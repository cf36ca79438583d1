-------------------------------- MODULE I2cBus --------------------------------
(***************************************************************************)
(* Reading a two-byte register over the simulated I2C bus: the register    *)
(* access of proto_i2c_reg.c on the bus of host_i2c.c.  All devices of a   *)
(* bus answer into one staging buffer, which keeps what an earlier         *)
(* transfer left in it.                                                    *)
(***************************************************************************)
EXTENDS Integers, Sequences, FiniteSets

CONSTANTS
  Addresses,
  MaxDevices   \* HAL_CFG_HOST_I2C_MAX_DEVICES

ASSUME BusAssumption == MaxDevices \in Nat

VARIABLES
  inUse,    \* addresses with a device
  staging   \* the first two bytes of rx_staging

bus == <<inUse, staging>>

ReadCapacity == 2

BusInit == inUse = {} /\ staging = <<0, 0>>

(* host_i2c_bus_register: an address answers with one device for ever.       *)
BusRegister(address) ==
  /\ address \notin inUse
  /\ Cardinality(inUse) < MaxDevices
  /\ inUse' = inUse \cup {address}
  /\ UNCHANGED staging

(* What a device may do when the register holds the given bytes: answer,     *)
(* stop after the first byte, fail with or without having written, claim     *)
(* more than it was asked for.                                               *)
Replies(register) ==
  {[status |-> "OK", wrote |-> register, completed |-> 2],
   [status |-> "OK", wrote |-> <<register[1]>>, completed |-> 1],
   [status |-> "IO", wrote |-> <<>>, completed |-> 0],
   [status |-> "IO", wrote |-> <<register[1]>>, completed |-> 1],
   [status |-> "OK", wrote |-> register, completed |-> 3]}

StagingAfter(address, reply) ==
  IF address \in inUse
  THEN [i \in 1..ReadCapacity |->
          IF i <= Len(reply.wrote) THEN reply.wrote[i] ELSE staging[i]]
  ELSE staging

Failure(status) == [status |-> status, bytes |-> <<>>]

(* host_i2c_transfer.  Mutant: the whole capacity is copied and reported.     *)
TransferredWhole(address, reply) ==
  IF address \notin inUse THEN Failure("NOT_FOUND")
  ELSE IF reply.status # "OK" THEN Failure(reply.status)
  ELSE IF reply.completed > ReadCapacity THEN Failure("INVALID_DATA")
  ELSE [status |-> "OK", bytes |-> StagingAfter(address, reply)]
Transferred(address, reply) ==
  IF address \notin inUse THEN Failure("NOT_FOUND")
  ELSE IF reply.status # "OK" THEN Failure(reply.status)
  ELSE IF reply.completed > ReadCapacity THEN Failure("INVALID_DATA")
  ELSE [status |-> "OK",
        bytes  |-> SubSeq(StagingAfter(address, reply), 1, reply.completed)]

(* proto_i2c_reg_read: a short transfer is an error.                         *)
RegRead(address, reply) ==
  LET transfer == Transferred(address, reply) IN
  IF transfer.status = "OK" /\ Len(transfer.bytes) # ReadCapacity
  THEN Failure("IO") ELSE transfer
=============================================================================
