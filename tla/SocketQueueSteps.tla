--------------------------- MODULE SocketQueueSteps ---------------------------
(***************************************************************************)
(* The inductive invariant of SocketQueue, and that the calls which submit,*)
(* sign, execute, roll back and replace transactions preserve it, for any  *)
(* number of accounts, PSBTs, messages, deposits and rounds.               *)
(***************************************************************************)
EXTENDS SocketQueue, TLAPS

(* The part of the state that the stages of a transaction depend on. *)
StageTypes ==
    /\ CurrentRound \in 1..MaxRound
    /\ ServiceState \in MigrationSequence
    /\ OngoingVaultMigration \in [Psbts -> TxStates]
    /\ SocketMessages \in [Messages -> Psbts \cup {None}]
    /\ PendingRequests \in [Psbts -> PsbtRequest \cup {None}]
    /\ FinalizedRequests \in [Psbts -> PsbtRequest \cup {None}]
    /\ ExecutedRequests \in [Psbts -> PsbtRequest \cup {None}]
    /\ RollbackRequests \in [Psbts -> RollbackRequest \cup {None}]
    /\ BondedOutboundTx \in [Psbts -> (SUBSET Messages) \cup {None}]
    /\ BondedRollbackOutputs \in [Deposits -> Psbts \cup {None}]
    /\ OutboundPool \in SUBSET Messages

(* A request that is pending or finalized, of a PSBT with the given rollback
   entry and state in the registration pool. *)
ActiveOK(request, state, rollback, migration) ==
    /\ request.request_type = "Rollback" <=> rollback # None
    /\ request.request_type = "Migration" <=> migration = "waiting"
    /\ migration # "executed"
    /\ state # "Normal" => request.request_type = "Migration"
    /\ state # "UTXOTransfer" => request.request_type # "Migration"
    /\ request.request_type # "Normal" => request.socket_messages = {}

BondedTo(request) ==
    IF request.request_type = "Normal" THEN request.socket_messages ELSE None

(* What holds of one PSBT: its entries in the maps of pending, finalized and
   executed requests and of rollbacks, the messages bonded to it and its state
   in the registration pool. *)
TxInv(p, state, round, pending, finalized, executed, rollback, bonded, migration) ==
    /\ \/ /\ pending # None /\ finalized = None /\ executed = None
          /\ ActiveOK(pending, state, rollback, migration)
          /\ bonded = None
       \/ /\ pending = None /\ finalized # None /\ executed = None
          /\ ActiveOK(finalized, state, rollback, migration)
          /\ bonded = BondedTo(finalized)
       \/ /\ pending = None /\ finalized = None /\ executed # None
          /\ executed.request_type = "Rollback" <=> rollback # None
          /\ migration = "executed" => executed.request_type = "Migration"
          /\ migration # "waiting"
          /\ executed.request_type # "Normal" => executed.socket_messages = {}
          /\ bonded = BondedTo(executed)
       \/ /\ pending = None /\ finalized = None /\ executed = None
          /\ bonded = None
          /\ migration = "absent"
    /\ rollback # None =>
          /\ rollback.is_approved <=> pending # None \/ finalized # None \/ executed # None
          /\ state # "Normal" => rollback.is_approved
          /\ p \notin Composed
          /\ \A r \in Rounds : VaultOf(r) \in Outs[p] => r <= round

Tx(p) ==
    TxInv(p, ServiceState, CurrentRound, PendingRequests[p], FinalizedRequests[p],
          ExecutedRequests[p], RollbackRequests[p], BondedOutboundTx[p],
          OngoingVaultMigration[p])

AllTx == \A p \in Psbts : Tx(p)

(* The request of p, in whatever stage, lists the message. *)
Lists(p, m) ==
    \/ PendingRequests[p] # None /\ m \in PendingRequests[p].socket_messages
    \/ FinalizedRequests[p] # None /\ m \in FinalizedRequests[p].socket_messages
    \/ ExecutedRequests[p] # None /\ m \in ExecutedRequests[p].socket_messages

MessagesListed ==
    \A m \in Messages : SocketMessages[m] # None => Lists(SocketMessages[m], m)

DepositsBonded ==
    \A p \in Psbts : RollbackRequests[p] # None =>
        BondedRollbackOutputs[RollbackRequests[p].deposit] = p

(* on_initialize does not look whether the transaction it composes is new: it
   is, because its messages have left the pool for good. *)
InStages(p) ==
    PendingRequests[p] # None \/ FinalizedRequests[p] # None \/ ExecutedRequests[p] # None

ComposedOnce ==
    \A p \in Composed : InStages(p) =>
        \A m \in Outs[p] \cap Messages : SocketMessages[m] # None /\ m \notin OutboundPool

(* The inductive invariant. *)
IInv == StageTypes /\ AllTx /\ MessagesListed /\ DepositsBonded /\ ComposedOnce

-----------------------------------------------------------------------------
(* Types of what the calls build. *)
LEMMA RequestType1 ==
    ASSUME NEW type \in RequestType, NEW messages \in SUBSET Messages
    PROVE /\ Request(type, messages) \in PsbtRequest
          /\ Request(type, messages).request_type = type
          /\ Request(type, messages).socket_messages = messages
          /\ Request(type, messages) # None
<1>1. Request(type, messages) \in PsbtRequest
  BY DEF Request, PsbtRequest
<1>2. QED
  BY <1>1, SocketQueueAssumption DEF Request

LEMMA RecordTypes ==
    /\ \A r \in PsbtRequest : /\ r # None
                              /\ r.request_type \in RequestType
                              /\ r.socket_messages \in SUBSET Messages
    /\ \A r \in RollbackRequest : /\ r # None
                                  /\ r.deposit \in Deposits
                                  /\ r.is_approved \in BOOLEAN
                                  /\ r.votes \in Votes
BY SocketQueueAssumption DEF PsbtRequest, RollbackRequest

(* Signing changes the signatures of a request only. *)
LEMMA SignedType ==
    ASSUME NEW r \in PsbtRequest, NEW a \in Accounts
    PROVE LET s == [r EXCEPT !.signed_psbts = @ \cup {a}, !.combined_psbt = @ \cup {a}]
          IN /\ s \in PsbtRequest
             /\ s.request_type = r.request_type
             /\ s.socket_messages = r.socket_messages
BY DEF PsbtRequest

LEMMA MovedRequestType ==
    ASSUME NEW r \in PsbtRequest, NEW old \in Accounts, NEW new \in Accounts,
           NEW s, s = [r EXCEPT !.signed_psbts = Moved(@, old, new)]
    PROVE /\ s \in PsbtRequest
          /\ s.request_type = r.request_type
          /\ s.socket_messages = r.socket_messages
<1>1. Moved(r.signed_psbts, old, new) \in SUBSET Accounts
  BY DEF PsbtRequest, Moved
<1>2. s = [r EXCEPT !.signed_psbts = Moved(r.signed_psbts, old, new)]
  OBVIOUS
<1>3. QED
  BY <1>1, <1>2 DEF PsbtRequest

LEMMA MovedRollbackType ==
    ASSUME NEW r \in RollbackRequest, NEW old \in Accounts, NEW new \in Accounts,
           NEW s, s = [r EXCEPT !.votes = MovedVote(@, old, new)]
    PROVE /\ s \in RollbackRequest
          /\ s.deposit = r.deposit
          /\ s.is_approved = r.is_approved
<1>1. MovedVote(r.votes, old, new) \in Votes
  BY DEF RollbackRequest, Votes, MovedVote
<1>2. s = [r EXCEPT !.votes = MovedVote(r.votes, old, new)]
  OBVIOUS
<1>3. QED
  BY <1>1, <1>2 DEF RollbackRequest

LEMMA Rounded == \A r, s \in Rounds : VaultOf(r) = VaultOf(s) => r = s
BY DEF VaultOf

(* What the invariant says of one PSBT does not change with the others. *)
LEMMA SameTx ==
    ASSUME NEW p \in Psbts, Tx(p), UNCHANGED <<ServiceState, CurrentRound>>,
           PendingRequests'[p] = PendingRequests[p],
           FinalizedRequests'[p] = FinalizedRequests[p],
           ExecutedRequests'[p] = ExecutedRequests[p],
           RollbackRequests'[p] = RollbackRequests[p],
           BondedOutboundTx'[p] = BondedOutboundTx[p],
           OngoingVaultMigration'[p] = OngoingVaultMigration[p]
    PROVE Tx(p)'
BY DEF Tx

LEMMA InitIInv == Init => IInv
<1> SUFFICES ASSUME Init PROVE IInv
  OBVIOUS
<1>1. StageTypes
  <2>1. CurrentRound \in 1..MaxRound
    BY PoolManagerAssumption DEF Init, PoolInit
  <2>2. OngoingVaultMigration \in [Psbts -> TxStates]
    BY SocketQueueAssumption DEF Init, PoolInit, TxStates
  <2>3. ServiceState \in MigrationSequence /\ OutboundPool \in SUBSET Messages
    BY DEF Init, BlazeInit, PoolInit, MigrationSequence
  <2>4. /\ SocketMessages \in [Messages -> Psbts \cup {None}]
        /\ BondedRollbackOutputs \in [Deposits -> Psbts \cup {None}]
        /\ RollbackRequests \in [Psbts -> RollbackRequest \cup {None}]
    BY DEF Init
  <2>5. /\ PendingRequests \in [Psbts -> PsbtRequest \cup {None}]
        /\ FinalizedRequests \in [Psbts -> PsbtRequest \cup {None}]
        /\ ExecutedRequests \in [Psbts -> PsbtRequest \cup {None}]
    BY DEF Init
  <2>6. BondedOutboundTx \in [Psbts -> (SUBSET Messages) \cup {None}]
    BY DEF Init
  <2>7. QED
    BY <2>1, <2>2, <2>3, <2>4, <2>5, <2>6 DEF StageTypes
<1>2. AllTx
  BY SocketQueueAssumption DEF Init, PoolInit, AllTx, Tx, TxInv
<1>3. MessagesListed /\ DepositsBonded
  BY DEF Init, MessagesListed, DepositsBonded
<1>4. ComposedOnce
  BY SocketQueueAssumption DEF Init, ComposedOnce, InStages
<1>5. QED
  BY <1>1, <1>2, <1>3, <1>4 DEF IInv

-----------------------------------------------------------------------------
(* Steps that leave the requests and the maps that point at them alone. *)
LEMMA Untouched ==
    ASSUME IInv,
           UNCHANGED <<ServiceState, CurrentRound, OngoingVaultMigration, OutboundPool,
                       stageVars, rollbackVars, SocketMessages, BondedOutboundTx>>
    PROVE IInv'
<1>1. StageTypes'
  BY DEF IInv, StageTypes, stageVars, rollbackVars
<1>2. AllTx'
  BY SameTx DEF IInv, AllTx, stageVars, rollbackVars
<1>3. MessagesListed' /\ DepositsBonded'
  BY DEF IInv, MessagesListed, Lists, DepositsBonded, stageVars, rollbackVars
<1>4. ComposedOnce'
  BY DEF IInv, ComposedOnce, InStages, stageVars
<1>5. QED
  BY <1>1, <1>2, <1>3, <1>4 DEF IInv

(* A payment enters the stages: submitted by the authority or composed. *)
LEMMA NewPaymentStep ==
    ASSUME IInv, NEW p \in Psbts, NEW messages \in SUBSET Messages,
           ~InStages(p), RollbackRequests[p] = None, ServiceState = "Normal",
           PendingRequests' = [PendingRequests EXCEPT ![p] = Request("Normal", messages)],
           SocketMessages' = [m \in Messages |-> IF m \in messages THEN p ELSE SocketMessages[m]],
           OutboundPool' \in SUBSET OutboundPool,
           p \in Composed =>
               \A m \in Outs[p] \cap Messages : m \in messages /\ m \notin OutboundPool',
           UNCHANGED <<ServiceState, CurrentRound, OngoingVaultMigration, FinalizedRequests,
                       ExecutedRequests, rollbackVars, BondedOutboundTx>>
    PROVE IInv'
<1> DEFINE request == Request("Normal", messages)
<1>0. /\ request \in PsbtRequest
      /\ request.request_type = "Normal"
      /\ request.socket_messages = messages
      /\ request # None
  BY RequestType1 DEF RequestType
<1> HIDE DEF request
<1>1. /\ PendingRequests'[p] = request
      /\ \A q \in Psbts : q # p => PendingRequests'[q] = PendingRequests[q]
  BY DEF IInv, StageTypes, request
<1>2. StageTypes'
  <2>1. PendingRequests' \in [Psbts -> PsbtRequest \cup {None}]
    BY <1>0 DEF IInv, StageTypes, request
  <2>2. SocketMessages' \in [Messages -> Psbts \cup {None}]
    BY DEF IInv, StageTypes
  <2>3. QED
    BY <2>1, <2>2 DEF IInv, StageTypes, rollbackVars
<1>3. AllTx'
  <2>1. Tx(p)'
    <3>1. Tx(p)
      BY DEF IInv, AllTx
    <3>2. BondedOutboundTx[p] = None /\ OngoingVaultMigration[p] = "absent"
      BY <3>1 DEF Tx, TxInv, InStages
    <3>3. ActiveOK(request, "Normal", None, "absent")
      BY <1>0 DEF ActiveOK
    <3>4. QED
      BY <1>0, <1>1, <3>2, <3>3 DEF Tx, TxInv, InStages, rollbackVars
  <2>2. ASSUME NEW q \in Psbts, q # p PROVE Tx(q)'
    BY <1>1, <2>2, SameTx DEF IInv, AllTx, rollbackVars
  <2>3. QED
    BY <2>1, <2>2 DEF AllTx
<1>4. MessagesListed'
  <2> SUFFICES ASSUME NEW m \in Messages, SocketMessages'[m] # None
               PROVE Lists(SocketMessages[m], m)'
    BY DEF MessagesListed
  <2>1. CASE m \in messages
    <3>1. SocketMessages'[m] = p
      BY <2>1
    <3>2. QED
      BY <1>0, <1>1, <2>1, <3>1 DEF Lists
  <2>2. CASE m \notin messages
    <3>1. SocketMessages'[m] = SocketMessages[m] /\ SocketMessages[m] \in Psbts
      BY <2>2 DEF IInv, StageTypes
    <3>2. Lists(SocketMessages[m], m)
      BY <3>1 DEF IInv, MessagesListed
    <3>3. SocketMessages[m] # p
      BY <3>2 DEF Lists, InStages
    <3>4. QED
      BY <1>1, <3>1, <3>2, <3>3 DEF Lists
  <2>3. QED
    BY <2>1, <2>2
<1>5. DepositsBonded'
  BY DEF IInv, DepositsBonded, rollbackVars
<1>6. ComposedOnce'
  <2> SUFFICES ASSUME NEW q \in Composed, InStages(q)', NEW m \in Outs[q] \cap Messages
               PROVE SocketMessages'[m] # None /\ m \notin OutboundPool'
    BY DEF ComposedOnce
  <2>1. CASE q = p
    BY <2>1, SocketQueueAssumption
  <2>2. CASE q # p
    <3>1. q \in Psbts
      BY SocketQueueAssumption
    <3>2. InStages(q)
      BY <1>1, <2>2, <3>1 DEF InStages
    <3>3. SocketMessages[m] # None /\ m \notin OutboundPool
      BY <3>2 DEF IInv, ComposedOnce
    <3>4. QED
      BY <3>3, SocketQueueAssumption
  <2>3. QED
    BY <2>1, <2>2
<1>7. QED
  BY <1>2, <1>3, <1>4, <1>5, <1>6 DEF IInv

LEMMA SubmitUnsignedStep ==
    ASSUME IInv, NEW a \in Accounts, NEW p \in WalletPsbts, NEW messages \in SUBSET Messages,
           submit_unsigned_psbt(a, p, messages)
    PROVE IInv'
<1>1. p \in Psbts /\ p \notin Composed
  BY DEF WalletPsbts
<1>2. ~InStages(p) /\ RollbackRequests[p] = None
  BY <1>1 DEF submit_unsigned_psbt, IsNew, Pending, Finalized, Executed, Rollbacks, InStages
<1>3. QED
  BY <1>1, <1>2, NewPaymentStep
     DEF submit_unsigned_psbt, blazeVars, feeVars, poolVars, IInv, StageTypes

LEMMA OnInitializeStep ==
    ASSUME IInv, NEW expired \in SUBSET Accounts, on_initialize(expired)
    PROVE IInv'
<1> DEFINE messages == RegisteredOutbounds
<1>0. messages \in SUBSET OutboundPool /\ messages \in SUBSET Messages
  BY DEF RegisteredOutbounds, IInv, StageTypes
<1>1. CASE UNCHANGED <<PendingRequests, SocketMessages, OutboundPool>>
  BY <1>1, Untouched DEF on_initialize, poolVars, stageVars
<1>2. ASSUME NEW p \in Composed, composite_psbt(p, messages) PROVE IInv'
  <2>1. p \in Psbts
    BY SocketQueueAssumption
  <2>2. \A m \in Outs[p] \cap Messages : m \in messages
    <3>1. CurrentRound \in Rounds
      BY PoolManagerAssumption DEF IInv, StageTypes, Rounds
    <3>2. VaultOf(CurrentRound) \notin Messages
      BY <3>1, SocketQueueAssumption DEF VaultOutputs
    <3>3. QED
      BY <1>2, <3>2 DEF composite_psbt, IsComposite
  <2>3. PICK m \in messages : m \in Outs[p]
    BY <1>2 DEF composite_psbt, IsComposite
  <2>4. ~InStages(p)
    BY <1>0, <2>3 DEF IInv, ComposedOnce
  <2>5. RollbackRequests[p] = None
    BY <2>1 DEF IInv, AllTx, Tx, TxInv
  <2>6. OutboundPool' = OutboundPool \ messages
    BY <1>2 DEF composite_psbt
  <2> HIDE DEF messages
  <2>7. QED
    BY <1>0, <1>2, <2>1, <2>2, <2>4, <2>5, <2>6, NewPaymentStep
       DEF composite_psbt, on_initialize, poolVars
<1>3. QED
  BY <1>1, <1>2 DEF on_initialize

-----------------------------------------------------------------------------
(* Steps of one PSBT that keep the messages it lists. *)
OthersKept(p) ==
    \A q \in Psbts : q # p =>
        /\ PendingRequests'[q] = PendingRequests[q]
        /\ FinalizedRequests'[q] = FinalizedRequests[q]
        /\ ExecutedRequests'[q] = ExecutedRequests[q]
        /\ RollbackRequests'[q] = RollbackRequests[q]
        /\ BondedOutboundTx'[q] = BondedOutboundTx[q]
        /\ OngoingVaultMigration'[q] = OngoingVaultMigration[q]

LEMMA OneTxStep ==
    ASSUME IInv, NEW p \in Psbts, StageTypes', Tx(p)', DepositsBonded', OthersKept(p),
           \A m \in Messages : Lists(p, m) => Lists(p, m)',
           p \in Composed /\ InStages(p)' => InStages(p),
           UNCHANGED <<ServiceState, CurrentRound, OutboundPool, SocketMessages>>
    PROVE IInv'
<1>1. AllTx'
  <2>1. ASSUME NEW q \in Psbts, q # p PROVE Tx(q)'
    BY <2>1, SameTx DEF IInv, AllTx, OthersKept
  <2>2. QED
    BY <2>1 DEF AllTx
<1>2. MessagesListed'
  <2> SUFFICES ASSUME NEW m \in Messages, SocketMessages'[m] # None
               PROVE Lists(SocketMessages[m], m)'
    BY DEF MessagesListed
  <2>1. SocketMessages[m] \in Psbts /\ Lists(SocketMessages[m], m)
    BY DEF IInv, StageTypes, MessagesListed
  <2>2. CASE SocketMessages[m] = p
    BY <2>1, <2>2
  <2>3. CASE SocketMessages[m] # p
    BY <2>1, <2>3 DEF Lists, OthersKept
  <2>4. QED
    BY <2>2, <2>3
<1>3. ComposedOnce'
  <2> SUFFICES ASSUME NEW q \in Composed, InStages(q)', NEW m \in Outs[q] \cap Messages
               PROVE SocketMessages'[m] # None /\ m \notin OutboundPool'
    BY DEF ComposedOnce
  <2>1. q \in Psbts
    BY SocketQueueAssumption
  <2>2. InStages(q)
    BY <2>1 DEF InStages, OthersKept
  <2>3. QED
    BY <2>2 DEF IInv, ComposedOnce
<1>4. QED
  BY <1>1, <1>2, <1>3 DEF IInv

LEMMA SubmitSignedStep ==
    ASSUME IInv, NEW a \in Accounts, NEW p \in Psbts, submit_signed_psbt(a, p)
    PROVE IInv'
<1> DEFINE request == [PendingRequests[p] EXCEPT !.signed_psbts = @ \cup {a},
                                                 !.combined_psbt = @ \cup {a}]
<1>0. PendingRequests[p] \in PsbtRequest /\ PendingRequests[p] # None
  BY DEF submit_signed_psbt, Pending, IInv, StageTypes
<1>1. /\ request \in PsbtRequest
      /\ request.request_type = PendingRequests[p].request_type
      /\ request.socket_messages = PendingRequests[p].socket_messages
      /\ request # None
  <2>1. /\ request \in PsbtRequest
        /\ request.request_type = PendingRequests[p].request_type
        /\ request.socket_messages = PendingRequests[p].socket_messages
    BY <1>0, SignedType
  <2>2. QED
    BY <2>1, RecordTypes
<1>2. \/ /\ FinalizedRequests' = [FinalizedRequests EXCEPT ![p] = request]
         /\ PendingRequests' = [PendingRequests EXCEPT ![p] = None]
         /\ BondedOutboundTx' = IF request.request_type = "Normal"
                                THEN [BondedOutboundTx EXCEPT ![p] = request.socket_messages]
                                ELSE BondedOutboundTx
      \/ /\ PendingRequests' = [PendingRequests EXCEPT ![p] = request]
         /\ UNCHANGED <<FinalizedRequests, BondedOutboundTx>>
  BY DEF submit_signed_psbt
<1>3. UNCHANGED <<ServiceState, CurrentRound, OngoingVaultMigration, OutboundPool,
                  ExecutedRequests, rollbackVars, SocketMessages>>
  BY DEF submit_signed_psbt, blazeVars, feeVars, poolVars
<1> HIDE DEF request
<1>4. StageTypes'
  <2>1. StageTypes /\ request.socket_messages \in SUBSET Messages
    BY <1>1, RecordTypes DEF IInv
  <2>2. /\ PendingRequests' \in [Psbts -> PsbtRequest \cup {None}]
        /\ FinalizedRequests' \in [Psbts -> PsbtRequest \cup {None}]
        /\ BondedOutboundTx' \in [Psbts -> (SUBSET Messages) \cup {None}]
    BY <1>1, <1>2, <2>1 DEF StageTypes
  <2>3. QED
    BY <1>3, <2>1, <2>2 DEF StageTypes, rollbackVars
<1>5. Tx(p)'
  <2>1. Tx(p)
    BY DEF IInv, AllTx
  <2>2. /\ FinalizedRequests[p] = None /\ ExecutedRequests[p] = None
        /\ ActiveOK(PendingRequests[p], ServiceState, RollbackRequests[p], OngoingVaultMigration[p])
        /\ BondedOutboundTx[p] = None
    BY <1>0, <2>1 DEF Tx, TxInv
  <2>3. ActiveOK(request, ServiceState, RollbackRequests[p], OngoingVaultMigration[p])
    BY <1>1, <2>2 DEF ActiveOK
  <2>4. RollbackRequests[p] # None =>
            /\ RollbackRequests[p].is_approved
            /\ p \notin Composed
            /\ \A r \in Rounds : VaultOf(r) \in Outs[p] => r <= CurrentRound
    BY <1>0, <2>1 DEF Tx, TxInv
  <2>5. CASE PendingRequests' = [PendingRequests EXCEPT ![p] = request]
             /\ UNCHANGED <<FinalizedRequests, BondedOutboundTx>>
    <3>1. PendingRequests'[p] = request
      BY <2>5 DEF IInv, StageTypes
    <3>2. QED
      BY <1>1, <1>3, <2>2, <2>3, <2>4, <2>5, <3>1 DEF Tx, TxInv, rollbackVars
  <2>6. CASE /\ FinalizedRequests' = [FinalizedRequests EXCEPT ![p] = request]
             /\ PendingRequests' = [PendingRequests EXCEPT ![p] = None]
             /\ BondedOutboundTx' = IF request.request_type = "Normal"
                                    THEN [BondedOutboundTx EXCEPT ![p] = request.socket_messages]
                                    ELSE BondedOutboundTx
    <3>1. PendingRequests'[p] = None /\ FinalizedRequests'[p] = request
      BY <2>6 DEF IInv, StageTypes
    <3>2. BondedOutboundTx'[p] = BondedTo(request)
      BY <2>2, <2>6 DEF IInv, StageTypes, BondedTo
    <3>3. QED
      BY <1>1, <1>3, <2>2, <2>3, <2>4, <3>1, <3>2 DEF Tx, TxInv, rollbackVars
  <2>7. QED
    BY <1>2, <2>5, <2>6
<1>6. OthersKept(p)
  BY <1>2, <1>3 DEF OthersKept, IInv, StageTypes, rollbackVars
<1>7. \A m \in Messages : Lists(p, m) => Lists(p, m)'
  <2>1. FinalizedRequests[p] = None /\ ExecutedRequests[p] = None
    BY <1>0 DEF IInv, AllTx, Tx, TxInv
  <2>2. PendingRequests'[p] = request \/ FinalizedRequests'[p] = request
    BY <1>2 DEF IInv, StageTypes
  <2>3. QED
    BY <1>1, <2>1, <2>2 DEF Lists
<1>8. InStages(p)
  BY <1>0 DEF InStages
<1>9. DepositsBonded'
  BY <1>3 DEF IInv, DepositsBonded, rollbackVars
<1>10. QED
  BY <1>3, <1>4, <1>5, <1>6, <1>7, <1>8, <1>9, OneTxStep

LEMMA SubmitExecutedStep ==
    ASSUME IInv, NEW a \in Accounts, NEW p \in Psbts, submit_executed_request(a, p)
    PROVE IInv'
<1> DEFINE request == FinalizedRequests[p]
<1>0. request \in PsbtRequest /\ request # None
  BY DEF submit_executed_request, Finalized, IInv, StageTypes
<1>1. UNCHANGED <<ServiceState, CurrentRound, OutboundPool, PendingRequests, rollbackVars,
                  SocketMessages, BondedOutboundTx>>
  BY DEF submit_executed_request, blazeVars, feeVars
<1>2. CASE UNCHANGED <<OngoingVaultMigration, FinalizedRequests, ExecutedRequests>>
  BY <1>1, <1>2, Untouched DEF stageVars
<1>3. CASE /\ OngoingVaultMigration' = MigrationTxExecuted(request, p)
           /\ FinalizedRequests' = [FinalizedRequests EXCEPT ![p] = None]
           /\ ExecutedRequests' = [ExecutedRequests EXCEPT ![p] = request]
  <2>1. /\ PendingRequests[p] = None /\ ExecutedRequests[p] = None
        /\ ActiveOK(request, ServiceState, RollbackRequests[p], OngoingVaultMigration[p])
        /\ BondedOutboundTx[p] = BondedTo(request)
        /\ RollbackRequests[p] # None =>
               /\ RollbackRequests[p].is_approved
               /\ p \notin Composed
               /\ \A r \in Rounds : VaultOf(r) \in Outs[p] => r <= CurrentRound
    BY <1>0 DEF IInv, AllTx, Tx, TxInv
  <2>2. OngoingVaultMigration' =
            [OngoingVaultMigration EXCEPT
                ![p] = IF request.request_type = "Migration" THEN "executed" ELSE @]
    BY <1>3, <2>1 DEF MigrationTxExecuted, execute_migration_tx, ActiveOK, IInv, StageTypes
  <2>3. /\ FinalizedRequests'[p] = None /\ ExecutedRequests'[p] = request
        /\ OngoingVaultMigration'[p] =
               IF request.request_type = "Migration" THEN "executed" ELSE OngoingVaultMigration[p]
    BY <1>3, <2>2 DEF IInv, StageTypes
  <2>4. OthersKept(p)
    BY <1>1, <1>3, <2>2 DEF OthersKept, IInv, StageTypes, rollbackVars
  <2> HIDE DEF request
  <2>5. StageTypes'
    <3>1. OngoingVaultMigration' \in [Psbts -> TxStates]
      BY <2>2 DEF IInv, StageTypes, TxStates
    <3>2. QED
      BY <1>0, <1>1, <1>3, <3>1 DEF IInv, StageTypes, rollbackVars
  <2>6. Tx(p)'
    BY <1>0, <1>1, <2>1, <2>3 DEF Tx, TxInv, ActiveOK, rollbackVars
  <2>7. \A m \in Messages : Lists(p, m) => Lists(p, m)'
    BY <1>0, <2>1, <2>3 DEF Lists, request
  <2>8. InStages(p)
    BY <1>0 DEF InStages, request
  <2>9. DepositsBonded'
    BY <1>1 DEF IInv, DepositsBonded, rollbackVars
  <2>10. QED
    BY <1>1, <2>4, <2>5, <2>6, <2>7, <2>8, <2>9, OneTxStep
<1>4. QED
  BY <1>2, <1>3 DEF submit_executed_request

-----------------------------------------------------------------------------
(* Rollbacks: a request that is put to the vote is in no stage, and its poll
   is the only way into the first one. *)
LEMMA NewIsAbsent ==
    ASSUME IInv, NEW p \in Psbts, IsNew(p)
    PROVE /\ PendingRequests[p] = None /\ FinalizedRequests[p] = None
          /\ ExecutedRequests[p] = None /\ RollbackRequests[p] = None
          /\ BondedOutboundTx[p] = None /\ OngoingVaultMigration[p] = "absent"
<1>1. /\ PendingRequests[p] = None /\ FinalizedRequests[p] = None
      /\ ExecutedRequests[p] = None /\ RollbackRequests[p] = None
  BY DEF IsNew, Pending, Finalized, Executed, Rollbacks
<1>2. QED
  BY <1>1 DEF IInv, AllTx, Tx, TxInv

LEMMA VaultRounds ==
    ASSUME IInv, NEW r \in Rounds
    PROVE /\ CurrentRound \in Rounds /\ CurrentRound + 1 \in Rounds
          /\ VaultOf(r) \in VaultOutputs
          /\ VaultOf(r) \notin Messages /\ VaultOf(r) \notin Deposits
<1>1. CurrentRound \in Rounds /\ CurrentRound + 1 \in Rounds
  BY PoolManagerAssumption DEF IInv, StageTypes, Rounds
<1>2. VaultOf(r) \in VaultOutputs
  BY DEF VaultOutputs
<1>3. QED
  BY <1>1, <1>2, SocketQueueAssumption

LEMMA SubmitRollbackStep ==
    ASSUME IInv, NEW p \in WalletPsbts, NEW d \in Deposits, submit_rollback_request(p, d)
    PROVE IInv'
<1> DEFINE rollback == [deposit |-> d, votes |-> [a \in Accounts |-> "none"],
                        is_approved |-> FALSE]
<1>0. p \in Psbts /\ p \notin Composed
  BY DEF WalletPsbts
<1>1. rollback \in RollbackRequest /\ rollback.deposit = d /\ rollback.is_approved = FALSE
  BY DEF RollbackRequest, Votes
<1>2. rollback # None
  BY <1>1, RecordTypes
<1>3. /\ UNCHANGED <<ServiceState, CurrentRound, OngoingVaultMigration, OutboundPool, stageVars,
                     SocketMessages, BondedOutboundTx>>
      /\ RollbackRequests' = [RollbackRequests EXCEPT ![p] = rollback]
      /\ BondedRollbackOutputs' = [BondedRollbackOutputs EXCEPT ![d] = p]
      /\ ServiceState = "Normal" /\ BondedRollbackOutputs[d] = None
  BY DEF submit_rollback_request, poolVars, feeVars
<1> HIDE DEF rollback
<1>4. StageTypes'
  BY <1>0, <1>1, <1>3 DEF IInv, StageTypes, stageVars
<1>5. Tx(p)'
  <2>1. /\ PendingRequests[p] = None /\ FinalizedRequests[p] = None
        /\ ExecutedRequests[p] = None
        /\ BondedOutboundTx[p] = None /\ OngoingVaultMigration[p] = "absent"
    BY <1>0, NewIsAbsent DEF submit_rollback_request
  <2>2. RollbackRequests'[p] = rollback
    BY <1>0, <1>3 DEF IInv, StageTypes
  <2>3. ASSUME NEW r \in Rounds, VaultOf(r) \in Outs[p] PROVE r <= CurrentRound
    <3>1. CurrentRound \in Rounds /\ VaultOf(r) \notin Deposits
      BY VaultRounds
    <3>2. VaultOf(r) = VaultOf(CurrentRound)
      BY <2>3, <3>1 DEF submit_rollback_request
    <3>3. r = CurrentRound
      BY <3>1, <3>2, Rounded
    <3>4. QED
      BY <3>1, <3>3 DEF Rounds
  <2>4. QED
    BY <1>0, <1>1, <1>2, <1>3, <2>1, <2>2, <2>3 DEF Tx, TxInv, stageVars
<1>6. OthersKept(p)
  BY <1>0, <1>3 DEF OthersKept, IInv, StageTypes, stageVars
<1>7. \A m \in Messages : Lists(p, m) => Lists(p, m)'
  BY <1>3 DEF Lists, stageVars
<1>8. DepositsBonded'
  <2> SUFFICES ASSUME NEW q \in Psbts, RollbackRequests'[q] # None
               PROVE BondedRollbackOutputs'[RollbackRequests'[q].deposit] = q
    BY DEF DepositsBonded
  <2>1. CASE q = p
    BY <1>0, <1>1, <1>3, <2>1 DEF IInv, StageTypes
  <2>2. CASE q # p
    <3>1. RollbackRequests'[q] = RollbackRequests[q] /\ RollbackRequests[q] \in RollbackRequest
      BY <1>0, <1>3, <2>2 DEF IInv, StageTypes
    <3>2. BondedRollbackOutputs[RollbackRequests[q].deposit] = q
      BY <3>1 DEF IInv, DepositsBonded
    <3>3. RollbackRequests[q].deposit # d
      BY <1>3, <3>2, SocketQueueAssumption
    <3>4. QED
      BY <1>3, <3>1, <3>2, <3>3, RecordTypes DEF IInv, StageTypes
  <2>3. QED
    BY <2>1, <2>2
<1>9. QED
  BY <1>0, <1>3, <1>4, <1>5, <1>6, <1>7, <1>8, OneTxStep

LEMMA RollbackPollStep ==
    ASSUME IInv, NEW a \in Accounts, NEW p \in Psbts, NEW is_approved \in BOOLEAN,
           submit_rollback_poll(a, p, is_approved)
    PROVE IInv'
<1> DEFINE vote == IF is_approved THEN "yes" ELSE "no"
           votes == [RollbackRequests[p].votes EXCEPT ![a] = vote]
           approved == Cardinality({b \in Accounts : votes[b] = "yes"}) >= Majority
           rollback == [deposit |-> RollbackRequests[p].deposit, votes |-> votes,
                        is_approved |-> approved]
           request == Request("Rollback", {})
<1>0. RollbackRequests[p] \in RollbackRequest /\ RollbackRequests[p].is_approved = FALSE
  <2>1. RollbackRequests[p] # None /\ ~RollbackRequests[p].is_approved
    BY DEF submit_rollback_poll, IsOpen, Rollbacks
  <2>2. QED
    BY <2>1, RecordTypes DEF IInv, StageTypes
<1>1. votes \in Votes
  BY <1>0 DEF RollbackRequest, Votes
<1>2. /\ RollbackRequests' = [RollbackRequests EXCEPT ![p] = rollback]
      /\ PendingRequests' = IF approved THEN [PendingRequests EXCEPT ![p] = request]
                            ELSE PendingRequests
      /\ UNCHANGED <<ServiceState, CurrentRound, OngoingVaultMigration, OutboundPool,
                     FinalizedRequests, ExecutedRequests, BondedRollbackOutputs, SocketMessages,
                     BondedOutboundTx>>
  BY DEF submit_rollback_poll, poolVars, blazeVars, feeVars
<1>3. approved \in BOOLEAN
  OBVIOUS
<1> HIDE DEF approved, votes
<1>4. /\ rollback \in RollbackRequest
      /\ rollback.deposit = RollbackRequests[p].deposit
      /\ rollback.is_approved = approved
  BY <1>0, <1>1, <1>3 DEF RollbackRequest
<1>5. /\ request \in PsbtRequest /\ request # None
      /\ request.request_type = "Rollback"
      /\ request.socket_messages = {}
  BY RequestType1 DEF RequestType
<1> HIDE DEF rollback, request
<1>6. /\ PendingRequests[p] = None /\ FinalizedRequests[p] = None
      /\ ExecutedRequests[p] = None
      /\ BondedOutboundTx[p] = None /\ OngoingVaultMigration[p] = "absent"
      /\ ServiceState = "Normal" /\ p \notin Composed
      /\ \A r \in Rounds : VaultOf(r) \in Outs[p] => r <= CurrentRound
  BY <1>0, RecordTypes DEF IInv, AllTx, Tx, TxInv
<1>7. RollbackRequests'[p] = rollback /\ rollback # None
  BY <1>2, <1>4, RecordTypes DEF IInv, StageTypes
<1>8. StageTypes'
  BY <1>2, <1>4, <1>5 DEF IInv, StageTypes
<1>9. Tx(p)'
  <2>1. CASE approved
    <3>1. PendingRequests'[p] = request
      BY <1>2, <2>1 DEF IInv, StageTypes
    <3>2. ActiveOK(request, ServiceState, rollback, OngoingVaultMigration[p])
      BY <1>5, <1>6, <1>7 DEF ActiveOK
    <3>3. QED
      BY <1>2, <1>4, <1>5, <1>6, <1>7, <2>1, <3>1, <3>2 DEF Tx, TxInv
  <2>2. CASE ~approved
    BY <1>2, <1>4, <1>6, <1>7, <2>2 DEF Tx, TxInv
  <2>3. QED
    BY <2>1, <2>2
<1>10. OthersKept(p)
  BY <1>2 DEF OthersKept, IInv, StageTypes
<1>11. \A m \in Messages : Lists(p, m) => Lists(p, m)'
  BY <1>6 DEF Lists
<1>12. DepositsBonded'
  BY <1>0, <1>2, <1>4, <1>7, RecordTypes DEF IInv, StageTypes, DepositsBonded
<1>13. QED
  BY <1>2, <1>6, <1>8, <1>9, <1>10, <1>11, <1>12, OneTxStep

LEMMA DropRollbackStep ==
    ASSUME IInv, NEW p \in WalletPsbts, drop_pending_rollback_request(p)
    PROVE IInv'
<1>0. p \in Psbts /\ p \notin Composed
  BY DEF WalletPsbts
<1>1. /\ RollbackRequests' = [RollbackRequests EXCEPT ![p] = None]
      /\ RollbackRequests[p] # None /\ ~RollbackRequests[p].is_approved
      /\ UNCHANGED <<ServiceState, CurrentRound, OngoingVaultMigration, OutboundPool, stageVars,
                     BondedRollbackOutputs, SocketMessages, BondedOutboundTx>>
  BY DEF drop_pending_rollback_request, poolVars, feeVars, IsOpen, Rollbacks
<1>2. /\ PendingRequests[p] = None /\ FinalizedRequests[p] = None
      /\ ExecutedRequests[p] = None
      /\ BondedOutboundTx[p] = None /\ OngoingVaultMigration[p] = "absent"
  BY <1>0, <1>1 DEF IInv, AllTx, Tx, TxInv
<1>3. StageTypes'
  BY <1>0, <1>1 DEF IInv, StageTypes, stageVars
<1>4. RollbackRequests'[p] = None
  BY <1>0, <1>1 DEF IInv, StageTypes
<1>5. Tx(p)'
  BY <1>0, <1>1, <1>2, <1>4 DEF Tx, TxInv, stageVars
<1>6. OthersKept(p)
  BY <1>0, <1>1 DEF OthersKept, IInv, StageTypes, stageVars
<1>7. \A m \in Messages : Lists(p, m) => Lists(p, m)'
  BY <1>1 DEF Lists, stageVars
<1>8. DepositsBonded'
  BY <1>0, <1>1 DEF IInv, StageTypes, DepositsBonded
<1>9. QED
  BY <1>0, <1>1, <1>3, <1>5, <1>6, <1>7, <1>8, OneTxStep

LEMMA SubmitMigrationStep ==
    ASSUME IInv, NEW p \in WalletPsbts, submit_migration_request(p)
    PROVE IInv'
<1> DEFINE request == Request("Migration", {})
<1>0. p \in Psbts /\ p \notin Composed
  BY DEF WalletPsbts
<1>1. /\ request \in PsbtRequest /\ request # None
      /\ request.request_type = "Migration"
      /\ request.socket_messages = {}
  BY RequestType1 DEF RequestType
<1>2. /\ ServiceState = "UTXOTransfer"
      /\ PendingRequests[p] = None /\ FinalizedRequests[p] = None /\ ExecutedRequests[p] = None
      /\ Outs[p] = {VaultOf(CurrentRound + 1)}
      /\ PendingRequests' = [PendingRequests EXCEPT ![p] = request]
      /\ OngoingVaultMigration' = add_migration_tx(OngoingVaultMigration, p)
      /\ UNCHANGED <<ServiceState, CurrentRound, OutboundPool, FinalizedRequests,
                     ExecutedRequests, rollbackVars, SocketMessages, BondedOutboundTx>>
  BY <1>0 DEF submit_migration_request, feeVars, Pending, Finalized, Executed
<1> HIDE DEF request
<1>3. OngoingVaultMigration[p] = "absent" /\ BondedOutboundTx[p] = None
  BY <1>0, <1>2 DEF IInv, AllTx, Tx, TxInv
<1>4. OngoingVaultMigration' = [OngoingVaultMigration EXCEPT ![p] = "waiting"]
  BY <1>0, <1>2, <1>3 DEF add_migration_tx, IInv, StageTypes
<1>5. /\ PendingRequests'[p] = request
      /\ OngoingVaultMigration'[p] = "waiting"
  BY <1>0, <1>2, <1>4 DEF IInv, StageTypes
<1>6. RollbackRequests[p] = None
  <2> SUFFICES ASSUME RollbackRequests[p] # None PROVE FALSE
    OBVIOUS
  <2>1. CurrentRound + 1 \in Rounds
    BY PoolManagerAssumption DEF IInv, StageTypes, Rounds
  <2>2. \A r \in Rounds : VaultOf(r) \in Outs[p] => r <= CurrentRound
    BY <1>0 DEF IInv, AllTx, Tx, TxInv
  <2>3. CurrentRound + 1 <= CurrentRound
    BY <1>2, <2>1, <2>2
  <2>4. QED
    BY <2>3 DEF IInv, StageTypes
<1>7. StageTypes'
  BY <1>0, <1>1, <1>2, <1>4 DEF IInv, StageTypes, rollbackVars, TxStates
<1>8. Tx(p)'
  <2>1. ActiveOK(request, "UTXOTransfer", None, "waiting")
    BY <1>1 DEF ActiveOK
  <2>2. QED
    BY <1>1, <1>2, <1>3, <1>5, <1>6, <2>1 DEF Tx, TxInv, rollbackVars
<1>9. OthersKept(p)
  BY <1>0, <1>2, <1>4 DEF OthersKept, IInv, StageTypes, rollbackVars
<1>10. \A m \in Messages : Lists(p, m) => Lists(p, m)'
  BY <1>2 DEF Lists
<1>11. DepositsBonded'
  BY <1>2 DEF IInv, DepositsBonded, rollbackVars
<1>12. QED
  BY <1>0, <1>2, <1>7, <1>8, <1>9, <1>10, <1>11, OneTxStep

-----------------------------------------------------------------------------
(* A fee bump replaces an executed request by a pending one of its type. *)
LEMMA BumpFacts ==
    ASSUME IInv, NEW old \in Psbts, NEW new \in WalletPsbts, submit_bump_fee_request(old, new)
    PROVE LET request == ExecutedRequests[old]
              replacement == Request(request.request_type, request.socket_messages)
          IN /\ new \in Psbts /\ new \notin Composed /\ new # old
             /\ request \in PsbtRequest
             /\ replacement \in PsbtRequest /\ replacement # None
             /\ replacement.request_type = request.request_type
             /\ replacement.socket_messages = request.socket_messages
             /\ ServiceState = IF request.request_type = "Migration" THEN "UTXOTransfer"
                                                                     ELSE "Normal"
             /\ BumpVerified(old, new, request.request_type)
             /\ ExecutedRequests' = [ExecutedRequests EXCEPT ![old] = None]
             /\ PendingRequests' = [PendingRequests EXCEPT ![new] = replacement]
             /\ UNCHANGED <<ServiceState, CurrentRound, OutboundPool, FinalizedRequests>>
             /\ \/ /\ request.request_type = "Normal"
                   /\ BumpNormal(old, new, request.socket_messages)
                \/ request.request_type = "Migration" /\ BumpMigration(old, new)
                \/ request.request_type = "Rollback" /\ BumpRollback(old, new)
<1> DEFINE request == ExecutedRequests[old]
<1>1. new \in Psbts /\ new \notin Composed
  BY DEF WalletPsbts
<1>2. request \in PsbtRequest
  BY DEF submit_bump_fee_request, Executed, IInv, StageTypes
<1>3. request.request_type \in RequestType /\ request.socket_messages \in SUBSET Messages
  BY <1>2, RecordTypes
<1>4. /\ new # old
      /\ ServiceState = IF request.request_type = "Migration" THEN "UTXOTransfer" ELSE "Normal"
      /\ BumpVerified(old, new, request.request_type)
      /\ ExecutedRequests' = [ExecutedRequests EXCEPT ![old] = None]
      /\ PendingRequests' = [PendingRequests EXCEPT
             ![new] = Request(request.request_type, request.socket_messages)]
      /\ UNCHANGED <<ServiceState, CurrentRound, OutboundPool, FinalizedRequests>>
  BY DEF submit_bump_fee_request, feeVars
<1>5. \/ /\ request.request_type = "Normal"
         /\ BumpNormal(old, new, request.socket_messages)
      \/ request.request_type = "Migration" /\ BumpMigration(old, new)
      \/ request.request_type = "Rollback" /\ BumpRollback(old, new)
  BY <1>3 DEF submit_bump_fee_request, RequestType
<1> HIDE DEF request
<1>6. QED
  BY <1>1, <1>2, <1>3, <1>4, <1>5, RequestType1 DEF request

LEMMA SubmitBumpStep ==
    ASSUME IInv, NEW old \in Psbts, NEW new \in WalletPsbts, submit_bump_fee_request(old, new)
    PROVE IInv'
<1> DEFINE request == ExecutedRequests[old]
           replacement == Request(request.request_type, request.socket_messages)
<1>1. /\ new \in Psbts /\ new \notin Composed /\ new # old
      /\ request \in PsbtRequest
      /\ replacement \in PsbtRequest /\ replacement # None
      /\ replacement.request_type = request.request_type
      /\ replacement.socket_messages = request.socket_messages
      /\ ServiceState = IF request.request_type = "Migration" THEN "UTXOTransfer" ELSE "Normal"
      /\ BumpVerified(old, new, request.request_type)
  BY BumpFacts
<1>2. /\ ExecutedRequests' = [ExecutedRequests EXCEPT ![old] = None]
      /\ PendingRequests' = [PendingRequests EXCEPT ![new] = replacement]
      /\ UNCHANGED <<ServiceState, CurrentRound, OutboundPool, FinalizedRequests>>
  BY BumpFacts
<1>3. \/ request.request_type = "Normal" /\ BumpNormal(old, new, request.socket_messages)
      \/ request.request_type = "Migration" /\ BumpMigration(old, new)
      \/ request.request_type = "Rollback" /\ BumpRollback(old, new)
  BY BumpFacts
<1>4. request # None
  BY <1>1, RecordTypes
<1> HIDE DEF request, replacement
<1>5. /\ PendingRequests[new] = None /\ FinalizedRequests[new] = None
      /\ ExecutedRequests[new] = None /\ RollbackRequests[new] = None
      /\ BondedOutboundTx[new] = None /\ OngoingVaultMigration[new] = "absent"
  BY <1>1, NewIsAbsent DEF submit_bump_fee_request
<1>6. /\ PendingRequests[old] = None /\ FinalizedRequests[old] = None
      /\ request.request_type = "Rollback" <=> RollbackRequests[old] # None
      /\ OngoingVaultMigration[old] = "executed" => request.request_type = "Migration"
      /\ OngoingVaultMigration[old] # "waiting"
      /\ request.request_type # "Normal" => request.socket_messages = {}
      /\ BondedOutboundTx[old] = BondedTo(request)
      /\ RollbackRequests[old] # None =>
             /\ RollbackRequests[old].is_approved
             /\ \A r \in Rounds : VaultOf(r) \in Outs[old] => r <= CurrentRound
  BY <1>4 DEF IInv, AllTx, Tx, TxInv, request
<1>7. /\ PendingRequests'[new] = replacement /\ PendingRequests'[old] = None
      /\ ExecutedRequests'[new] = None /\ ExecutedRequests'[old] = None
      /\ FinalizedRequests'[new] = None /\ FinalizedRequests'[old] = None
      /\ \A q \in Psbts : q # new /\ q # old =>
             /\ PendingRequests'[q] = PendingRequests[q]
             /\ ExecutedRequests'[q] = ExecutedRequests[q]
             /\ FinalizedRequests'[q] = FinalizedRequests[q]
  BY <1>1, <1>2, <1>5, <1>6 DEF IInv, StageTypes
<1>8. /\ SocketMessages' \in [Messages -> Psbts \cup {None}]
      /\ RollbackRequests' \in [Psbts -> RollbackRequest \cup {None}]
      /\ BondedOutboundTx' \in [Psbts -> (SUBSET Messages) \cup {None}]
      /\ BondedRollbackOutputs' \in [Deposits -> Psbts \cup {None}]
      /\ OngoingVaultMigration' \in [Psbts -> TxStates]
  <2>1. CASE BumpNormal(old, new, request.socket_messages)
    BY <1>1, <2>1 DEF BumpNormal, rollbackVars, IInv, StageTypes
  <2>2. CASE BumpMigration(old, new)
    BY <1>1, <2>2 DEF BumpMigration, rollbackVars, IInv, StageTypes, TxStates,
                      add_migration_tx, remove_migration_tx
  <2>3. CASE BumpRollback(old, new)
    BY <1>1, <2>3 DEF BumpRollback, IInv, StageTypes
  <2>4. QED
    BY <1>3, <2>1, <2>2, <2>3
<1>9. StageTypes'
  BY <1>1, <1>2, <1>8 DEF IInv, StageTypes
<1>10. /\ \A q \in Psbts : q # new /\ q # old =>
              /\ RollbackRequests'[q] = RollbackRequests[q]
              /\ BondedOutboundTx'[q] = BondedOutboundTx[q]
              /\ OngoingVaultMigration'[q] = OngoingVaultMigration[q]
       /\ RollbackRequests'[old] = None
       /\ RollbackRequests'[new] = RollbackRequests[old]
       /\ BondedOutboundTx'[old] = None /\ BondedOutboundTx'[new] = None
       /\ OngoingVaultMigration'[old] = "absent"
       /\ OngoingVaultMigration'[new] =
              IF request.request_type = "Migration" THEN "waiting" ELSE "absent"
  <2>1. CASE request.request_type = "Normal" /\ BumpNormal(old, new, request.socket_messages)
    BY <1>1, <1>5, <1>6, <2>1 DEF BumpNormal, rollbackVars, IInv, StageTypes, TxStates
  <2>2. CASE request.request_type = "Migration" /\ BumpMigration(old, new)
    <3>1. OngoingVaultMigration' =
              [OngoingVaultMigration EXCEPT ![old] = "absent", ![new] = "waiting"]
      BY <1>1, <1>5, <2>2 DEF BumpMigration, add_migration_tx, remove_migration_tx,
                              IInv, StageTypes
    <3>2. QED
      BY <1>1, <1>5, <1>6, <2>2, <3>1 DEF BumpMigration, rollbackVars, BondedTo, IInv, StageTypes
  <2>3. CASE request.request_type = "Rollback" /\ BumpRollback(old, new)
    BY <1>1, <1>5, <1>6, <2>3 DEF BumpRollback, BondedTo, IInv, StageTypes, TxStates
  <2>4. QED
    BY <1>3, <2>1, <2>2, <2>3
<1>11. AllTx'
  <2>1. Tx(old)'
    BY <1>7, <1>10 DEF Tx, TxInv
  <2>2. Tx(new)'
    <3>1. ActiveOK(replacement, ServiceState, RollbackRequests'[new], OngoingVaultMigration'[new])
      BY <1>1, <1>6, <1>10 DEF ActiveOK
    <3>2. ASSUME RollbackRequests[old] # None, NEW r \in Rounds, VaultOf(r) \in Outs[new]
          PROVE r <= CurrentRound
      <4>1. CurrentRound \in Rounds
        BY VaultRounds
      <4>2. VaultOf(r) \in Outs[old] \/ VaultOf(r) = VaultOf(CurrentRound)
        BY <1>1, <1>6, <3>2 DEF BumpVerified
      <4>3. VaultOf(r) \in Outs[old] \/ r = CurrentRound
        BY <4>1, <4>2, Rounded
      <4>4. VaultOf(r) \in Outs[old] => r <= CurrentRound
        BY <1>6, <3>2
      <4>5. CurrentRound <= CurrentRound
        BY <4>1 DEF Rounds
      <4>6. QED
        BY <4>3, <4>4, <4>5
    <3>3. QED
      BY <1>1, <1>2, <1>6, <1>7, <1>10, <3>1, <3>2 DEF Tx, TxInv
  <2>3. ASSUME NEW q \in Psbts, q # new, q # old PROVE Tx(q)'
    BY <1>2, <1>7, <1>10, <2>3, SameTx DEF IInv, AllTx
  <2>4. QED
    BY <2>1, <2>2, <2>3 DEF AllTx
<1>12. MessagesListed'
  <2> SUFFICES ASSUME NEW m \in Messages, SocketMessages'[m] # None
               PROVE Lists(SocketMessages[m], m)'
    BY DEF MessagesListed
  <2>1. CASE m \in request.socket_messages
    <3>1. SocketMessages'[m] = new
      BY <1>3, <1>6, <2>1 DEF BumpNormal
    <3>2. QED
      BY <1>1, <1>7, <2>1, <3>1 DEF Lists
  <2>2. CASE m \notin request.socket_messages
    <3>1. SocketMessages'[m] = SocketMessages[m]
      BY <1>3, <2>2 DEF BumpNormal, BumpMigration, BumpRollback
    <3>2. SocketMessages[m] \in Psbts /\ Lists(SocketMessages[m], m)
      BY <3>1 DEF IInv, StageTypes, MessagesListed
    <3>3. SocketMessages[m] # old
      BY <1>6, <2>2, <3>2 DEF Lists, request
    <3>4. SocketMessages[m] # new
      BY <1>5, <3>2 DEF Lists
    <3>5. QED
      BY <1>7, <3>1, <3>2, <3>3, <3>4 DEF Lists
  <2>3. QED
    BY <2>1, <2>2
<1>13. DepositsBonded'
  <2>1. CASE BumpNormal(old, new, request.socket_messages) \/ BumpMigration(old, new)
    BY <2>1 DEF BumpNormal, BumpMigration, rollbackVars, IInv, DepositsBonded
  <2>2. CASE BumpRollback(old, new)
    <3> SUFFICES ASSUME NEW q \in Psbts, RollbackRequests'[q] # None
                 PROVE BondedRollbackOutputs'[RollbackRequests'[q].deposit] = q
      BY DEF DepositsBonded
    <3>1. RollbackRequests[old] \in RollbackRequest
      BY <2>2 DEF BumpRollback, Rollbacks, IInv, StageTypes
    <3>2. RollbackRequests[old].deposit \in Deposits
          /\ BondedRollbackOutputs[RollbackRequests[old].deposit] = old
      BY <3>1, RecordTypes DEF IInv, DepositsBonded
    <3>3. CASE q = new
      BY <1>10, <2>2, <3>2, <3>3 DEF BumpRollback, IInv, StageTypes
    <3>4. CASE q # new /\ q # old
      <4>1. RollbackRequests'[q] = RollbackRequests[q] /\ RollbackRequests[q] # None
        BY <1>10, <3>4
      <4>2. RollbackRequests[q].deposit \in Deposits
            /\ BondedRollbackOutputs[RollbackRequests[q].deposit] = q
        BY <4>1, RecordTypes DEF IInv, StageTypes, DepositsBonded
      <4>3. QED
        BY <2>2, <3>2, <3>4, <4>1, <4>2 DEF BumpRollback, IInv, StageTypes
    <3>5. QED
      BY <1>10, <3>3, <3>4
  <2>3. QED
    BY <1>3, <2>1, <2>2
<1>14. ComposedOnce'
  <2> SUFFICES ASSUME NEW q \in Composed, InStages(q)', NEW m \in Outs[q] \cap Messages
               PROVE SocketMessages'[m] # None /\ m \notin OutboundPool'
    BY DEF ComposedOnce
  <2>1. q \in Psbts /\ q # new
    BY <1>1, SocketQueueAssumption
  <2>2. InStages(q)
    BY <1>7, <2>1 DEF InStages
  <2>3. SocketMessages[m] # None /\ m \notin OutboundPool
    BY <2>2 DEF IInv, ComposedOnce
  <2>4. SocketMessages'[m] \in {new, SocketMessages[m]}
    BY <1>3 DEF BumpNormal, BumpMigration, BumpRollback
  <2>5. QED
    BY <1>1, <1>2, <2>3, <2>4, SocketQueueAssumption
<1>15. QED
  BY <1>9, <1>11, <1>12, <1>13, <1>14 DEF IInv
==============================================================================
