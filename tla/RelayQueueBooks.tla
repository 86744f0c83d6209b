--------------------------- MODULE RelayQueueBooks ---------------------------
(***************************************************************************)
(* The books of RelayQueue are exact, for any number of accounts, messages,*)
(* source transactions, assets and indexes: the cap that an asset's Fast   *)
(* transfers hold, and the slots that a relayer's pending entries take.    *)
(***************************************************************************)
EXTENDS RelayQueueProofs, Arithmetic

(* The books of the caps.  Held(asset) are the Fast transfers on flight whose
   amounts the asset's on_flight_cap adds up. *)
Held(asset) == {m \in FastOnFlight : AssetIndexes[IndexOf[m]] = asset}

FewOnFlight == IsFiniteSet(FastOnFlight)

LEMMA CapAccountingByAsset ==
    CapAccounting <=>
        \A asset \in Assets : AssetCaps[asset] # None =>
            AssetCaps[asset].on_flight_cap = SumOver(Amount, Held(asset))
BY DEF CapAccounting, SumOver, Held

LEMMA CapAccountingNext ==
    CapAccounting' <=>
        \A asset \in Assets : AssetCaps'[asset] # None =>
            AssetCaps'[asset].on_flight_cap = SumOver(Amount, Held(asset)')
<1>1. CapAccounting' <=>
        (\A asset \in Assets : AssetCaps[asset] # None =>
            AssetCaps[asset].on_flight_cap = SumOver(Amount, Held(asset)))'
  BY CapAccountingByAsset, PTL
<1>2. QED
  BY <1>1

LEMMA HeldFinite ==
    ASSUME FewOnFlight, NEW asset
    PROVE /\ IsFiniteSet(Held(asset))
          /\ \A m \in Held(asset) : Amount[m] \in Nat
BY FS_Subset, RelayQueueAssumption DEF FewOnFlight, Held, FastOnFlight

(* Steps that change neither the transfers nor the books of an asset. *)
LEMMA SameHoldings ==
    ASSUME FewOnFlight, CapAccounting,
           FastOnFlight' = FastOnFlight,
           \A asset \in Assets : AssetCaps'[asset] # None =>
               \/ /\ AssetCaps[asset] # None
                  /\ AssetCaps'[asset].on_flight_cap = AssetCaps[asset].on_flight_cap
                  /\ Held(asset)' = Held(asset)
               \/ AssetCaps'[asset].on_flight_cap = 0 /\ Held(asset)' = {}
    PROVE (FewOnFlight /\ CapAccounting)'
<1>1. FewOnFlight'
  BY DEF FewOnFlight
<1>2. ASSUME NEW asset \in Assets, AssetCaps'[asset] # None
      PROVE AssetCaps'[asset].on_flight_cap = SumOver(Amount, Held(asset)')
  BY <1>2, CapAccountingByAsset, SumEmpty
<1>3. QED
  BY <1>1, <1>2, CapAccountingNext

LEMMA CapAccountingApprove ==
    ASSUME IInv, FewOnFlight, CapAccounting,
           NEW r \in Accounts, NEW m \in Messages, NEW t \in TxIds,
           CanPollOnFlight(r, m, t), ApproveTransfer(m, t), UNCHANGED AssetIndexes
    PROVE (FewOnFlight /\ CapAccounting)'
<1> DEFINE option == OptionOf(m)
           approved == [option |-> option, src_tx_id |-> t, finalization_voters |-> <<>>]
<1>1. /\ OnFlightTransfers[m] = None
      /\ update_fast_transfer_cap(m, option, 1)
      /\ OnFlightTransfers' = [OnFlightTransfers EXCEPT ![m] = approved]
  BY DEF CanPollOnFlight, NotYetApproved, ApproveTransfer
<1>2. TypeOK
  BY DEF IInv
<1>3. approved # None /\ approved.option = option
  <2>1. option \in {"Fast", "Standard"}
    BY DEF OptionOf, determine_transfer_option
  <2>2. <<>> \in Seq(Accounts)
    BY EmptySeq
  <2>3. approved \in TransferInfo
    BY <2>1, <2>2 DEF TransferInfo
  <2>4. QED
    BY <2>3, RelayQueueAssumption DEF TransferInfo
<1> HIDE DEF approved
<1>4. FastOnFlight' = IF option = "Fast" THEN FastOnFlight \cup {m} ELSE FastOnFlight
  BY <1>1, <1>2, <1>3 DEF FastOnFlight, OnFlight, TypeOK
<1>5. m \notin FastOnFlight
  BY <1>1 DEF FastOnFlight, OnFlight
<1> DEFINE asset == get_asset_info(m)
<1>6. CASE option # "Fast"
  <2>1. UNCHANGED AssetCaps
    BY <1>1, <1>6 DEF update_fast_transfer_cap
  <2>2. FastOnFlight' = FastOnFlight
    BY <1>4, <1>6
  <2>3. QED
    BY <2>1, <2>2, SameHoldings DEF Held
<1>7. CASE option = "Fast"
  <2>1. asset # None /\ asset = AssetIndexes[IndexOf[m]]
    BY <1>7 DEF OptionOf, get_asset_info
  <2>2. asset \in Assets /\ AssetCaps[asset] \in CapInfo
    BY <1>2, <2>1, RelayQueueAssumption DEF get_asset_info, TypeOK
  <2>3. AssetCaps' = [AssetCaps EXCEPT ![asset].on_flight_cap = @ + 1 * Amount[m]]
    BY <1>1, <1>7, <2>1 DEF update_fast_transfer_cap
  <2>4. Amount[m] \in Nat /\ 1 * Amount[m] = Amount[m]
    <3>1. Amount[m] \in Nat
      BY RelayQueueAssumption
    <3>2. QED
      BY <3>1
  <2> HIDE DEF asset
  <2>5. /\ AssetCaps'[asset].on_flight_cap = AssetCaps[asset].on_flight_cap + Amount[m]
        /\ \A a \in Assets : a # asset => AssetCaps'[a] = AssetCaps[a]
    BY <1>2, <2>2, <2>3, <2>4 DEF TypeOK, CapInfo
  <2>6. FewOnFlight'
    BY <1>4, <1>7, FS_AddElement DEF FewOnFlight
  <2>7. ASSUME NEW a \in Assets, AssetCaps'[a] # None
        PROVE AssetCaps'[a].on_flight_cap = SumOver(Amount, Held(a)')
    <3>1. CASE a = asset
      <4>1. Held(a)' = Held(a) \cup {m} /\ m \notin Held(a)
        BY <1>4, <1>5, <1>7, <2>1, <3>1 DEF Held
      <4>2. SumOver(Amount, Held(a) \cup {m}) = SumOver(Amount, Held(a)) + Amount[m]
        BY <2>4, <4>1, HeldFinite, SumWith
      <4>3. AssetCaps[a] # None
        BY <2>2, <3>1, RelayQueueAssumption DEF CapInfo
      <4>4. QED
        BY <2>5, <3>1, <4>1, <4>2, <4>3, CapAccountingByAsset
    <3>2. CASE a # asset
      <4>1. Held(a)' = Held(a)
        BY <1>4, <1>7, <2>1, <3>2 DEF Held
      <4>2. QED
        BY <2>5, <2>7, <3>2, <4>1, CapAccountingByAsset
    <3>3. QED
      BY <3>1, <3>2
  <2>8. QED
    BY <2>6, <2>7, CapAccountingNext
<1>8. QED
  BY <1>6, <1>7

LEMMA CapAccountingFinalize ==
    ASSUME IInv, FewOnFlight, CapAccounting,
           NEW r \in Accounts, NEW m \in Messages, NEW claimed \in Statuses,
           finalize_poll(r, m, claimed)
    PROVE (FewOnFlight /\ CapAccounting)'
<1>1. /\ TypeOK /\ FastRegistered
      /\ OnFlightTransfers[m] # None /\ UNCHANGED AssetIndexes
  BY DEF IInv, finalize_poll
<1>2. OnFlightTransfers[m] \in TransferInfo /\ None \notin TransferInfo
  BY <1>1, RelayQueueAssumption DEF TypeOK, TransferInfo
<1>3. CASE /\ OnFlightTransfers' = [OnFlightTransfers EXCEPT ![m].finalization_voters = Append(@, r)]
           /\ UNCHANGED AssetCaps
  <2> DEFINE voted == [OnFlightTransfers[m] EXCEPT !.finalization_voters = Append(@, r)]
  <2>1. voted \in TransferInfo /\ voted.option = OnFlightTransfers[m].option
    BY <1>2, AppendProperties DEF TransferInfo
  <2>2. OnFlightTransfers' = [OnFlightTransfers EXCEPT ![m] = voted]
    BY <1>3
  <2> HIDE DEF voted
  <2>3. FastOnFlight' = FastOnFlight
    BY <1>1, <1>2, <2>1, <2>2 DEF FastOnFlight, OnFlight, TypeOK
  <2>4. QED
    BY <1>1, <1>3, <2>3, SameHoldings DEF Held
<1>4. CASE /\ update_fast_transfer_cap(m, OnFlightTransfers[m].option, -1)
           /\ OnFlightTransfers' = [OnFlightTransfers EXCEPT ![m] = None]
  <2>1. FastOnFlight' = FastOnFlight \ {m}
    BY <1>1, <1>4 DEF FastOnFlight, OnFlight, TypeOK
  <2>2. CASE OnFlightTransfers[m].option # "Fast"
    <3>1. UNCHANGED AssetCaps
      BY <1>4, <2>2 DEF update_fast_transfer_cap
    <3>2. FastOnFlight' = FastOnFlight
      BY <2>1, <2>2 DEF FastOnFlight
    <3>3. QED
      BY <1>1, <3>1, <3>2, SameHoldings DEF Held
  <2>3. CASE OnFlightTransfers[m].option = "Fast"
    <3> DEFINE asset == get_asset_info(m)
    <3>1. m \in FastOnFlight
      BY <1>1, <2>3 DEF FastOnFlight, OnFlight
    <3>2. asset # None /\ asset = AssetIndexes[IndexOf[m]]
      BY <1>1, <3>1 DEF FastRegistered, get_asset_info
    <3>3. asset \in Assets /\ AssetCaps[asset] \in CapInfo
      BY <1>1, <3>2, RelayQueueAssumption DEF get_asset_info, TypeOK
    <3>4. AssetCaps' = [AssetCaps EXCEPT ![asset].on_flight_cap = @ + (-1) * Amount[m]]
      BY <1>4, <2>3, <3>2 DEF update_fast_transfer_cap
    <3>5. Amount[m] \in Nat /\ (-1) * Amount[m] = -Amount[m]
      <4>1. Amount[m] \in Nat
        BY RelayQueueAssumption
      <4>2. QED
        BY <4>1
    <3> HIDE DEF asset
    <3>6. /\ AssetCaps'[asset].on_flight_cap = AssetCaps[asset].on_flight_cap - Amount[m]
          /\ \A a \in Assets : a # asset => AssetCaps'[a] = AssetCaps[a]
      BY <1>1, <3>3, <3>4, <3>5 DEF TypeOK, CapInfo
    <3>7. FewOnFlight'
      BY <2>1, FS_RemoveElement DEF FewOnFlight
    <3>8. ASSUME NEW a \in Assets, AssetCaps'[a] # None
          PROVE AssetCaps'[a].on_flight_cap = SumOver(Amount, Held(a)')
      <4>1. CASE a = asset
        <5>1. Held(a)' = Held(a) \ {m} /\ m \in Held(a)
          BY <1>1, <2>1, <3>1, <3>2, <4>1 DEF Held
        <5>2. /\ SumOver(Amount, Held(a)) = SumOver(Amount, Held(a) \ {m}) + Amount[m]
              /\ SumOver(Amount, Held(a) \ {m}) \in Nat
          <6>1. IsFiniteSet(Held(a) \ {m})
            BY HeldFinite, FS_RemoveElement
          <6>2. QED
            BY <5>1, <6>1, HeldFinite, SumWithout, SumType
        <5>3. AssetCaps[a] # None
          BY <3>3, <4>1, RelayQueueAssumption DEF CapInfo
        <5>4. AssetCaps[a].on_flight_cap = SumOver(Amount, Held(a))
          BY <5>3, CapAccountingByAsset
        <5>5. QED
          BY <3>5, <3>6, <4>1, <5>1, <5>2, <5>4
      <4>2. CASE a # asset
        <5>1. Held(a)' = Held(a)
          BY <1>1, <2>1, <3>2, <4>2 DEF Held
        <5>2. QED
          BY <3>6, <3>8, <4>2, <5>1, CapAccountingByAsset
      <4>3. QED
        BY <4>1, <4>2
    <3>9. QED
      BY <3>7, <3>8, CapAccountingNext
  <2>4. QED
    BY <2>2, <2>3
<1>5. QED
  BY <1>3, <1>4 DEF finalize_poll

(* A fresh asset starts with empty books: its indexes were unregistered, and
   no Fast transfer has an unregistered index or an asset without a cap. *)
LEMMA CapAccountingAdd ==
    ASSUME IInv, FewOnFlight, CapAccounting,
           NEW asset \in Assets, NEW cap \in Caps, NEW hooks \in HookChoices(Indexes),
           add_asset(asset, cap, hooks)
    PROVE (FewOnFlight /\ CapAccounting)'
<1>1. TypeOK /\ FastRegistered /\ UNCHANGED OnFlightTransfers
  BY DEF IInv, add_asset, transferVars
<1>2. /\ AssetCaps[asset] = None
      /\ \A i \in DOMAIN hooks : AssetIndexes[i] = None
      /\ AssetIndexes' = [i \in Indexes |-> IF i \in DOMAIN hooks THEN asset ELSE AssetIndexes[i]]
  BY <1>1 DEF add_asset, Inserted, TypeOK
<1>3. /\ AssetCaps'[asset].on_flight_cap = 0
      /\ \A a \in Assets : a # asset => AssetCaps'[a] = AssetCaps[a]
  BY <1>1 DEF add_asset, TypeOK
<1>4. FastOnFlight' = FastOnFlight
  BY <1>1 DEF FastOnFlight, OnFlight
<1>5. \A m \in FastOnFlight : /\ AssetIndexes[IndexOf[m]] \notin {None, asset}
                              /\ IndexOf[m] \in Indexes
  BY <1>1, <1>2, RelayQueueAssumption DEF FastRegistered, get_asset_info, FastOnFlight
<1>6. \A m \in FastOnFlight : AssetIndexes'[IndexOf[m]] = AssetIndexes[IndexOf[m]]
  BY <1>2, <1>5
<1>7. \A a \in Assets : Held(a)' = Held(a)
  BY <1>4, <1>6 DEF Held
<1>8. Held(asset) = {}
  BY <1>5 DEF Held
<1>9. QED
  BY <1>3, <1>4, <1>7, <1>8, SameHoldings

LEMMA CapAccountingRemove ==
    ASSUME IInv, FewOnFlight, CapAccounting, NEW asset \in Assets, remove_asset(asset)
    PROVE (FewOnFlight /\ CapAccounting)'
<1> DEFINE indexes == IndexesOf(asset)
<1>1. TypeOK /\ FastRegistered /\ UNCHANGED OnFlightTransfers
  BY DEF IInv, remove_asset, transferVars
<1>2. /\ ~has_active_transfers(indexes)
      /\ AssetIndexes' = [i \in Indexes |-> IF i \in indexes THEN None ELSE AssetIndexes[i]]
  BY <1>1 DEF remove_asset, Inserted, TypeOK
<1>3. /\ AssetCaps'[asset] = None
      /\ \A a \in Assets : a # asset => AssetCaps'[a] = AssetCaps[a]
  BY <1>1 DEF remove_asset, TypeOK
<1> HIDE DEF indexes
<1>4. FastOnFlight' = FastOnFlight
  BY <1>1 DEF FastOnFlight, OnFlight
<1>5. \A m \in FastOnFlight : IndexOf[m] \in Indexes \ indexes
  BY <1>2, RelayQueueAssumption DEF has_active_transfers, FastOnFlight, OnFlight
<1>6. \A a \in Assets : Held(a)' = Held(a)
  BY <1>2, <1>4, <1>5 DEF Held
<1>7. QED
  BY <1>3, <1>4, <1>6, SameHoldings

(* An index given to an asset had none, so no Fast transfer changes hands. *)
LEMMA CapAccountingUpdate ==
    ASSUME IInv, FewOnFlight, CapAccounting, NEW asset \in Assets,
           NEW cap \in Caps \cup {None}, NEW rem \in SUBSET Indexes,
           NEW add \in HookChoices(Indexes \ rem), NEW upd \in HookChoices(Indexes \ rem),
           update_asset(asset, cap, add, upd, rem)
    PROVE (FewOnFlight /\ CapAccounting)'
<1>1. TypeOK /\ FastRegistered /\ UNCHANGED OnFlightTransfers
  BY DEF IInv, update_asset, transferVars
<1>2. /\ ~has_active_transfers(rem)
      /\ AssetCaps[asset] # None
      /\ \A i \in DOMAIN add : AssetIndexes[i] = None
      /\ AssetIndexes' = [i \in Indexes |-> IF i \in rem THEN None
                             ELSE IF i \in DOMAIN add THEN asset ELSE AssetIndexes[i]]
  BY <1>1 DEF update_asset, Inserted, TypeOK
<1>3. \A a \in Assets : AssetCaps'[a] # None =>
          AssetCaps[a] # None /\ AssetCaps'[a].on_flight_cap = AssetCaps[a].on_flight_cap
  <2>1. CASE cap = None
    BY <2>1 DEF update_asset
  <2>2. CASE cap # None
    <3> DEFINE new == [AssetCaps[asset] EXCEPT !.max_on_flight_cap = cap]
    <3>1. AssetCaps[asset] \in CapInfo
      BY <1>1, <1>2 DEF TypeOK
    <3>2. new.on_flight_cap = AssetCaps[asset].on_flight_cap
      BY <3>1 DEF CapInfo
    <3>3. AssetCaps' = [AssetCaps EXCEPT ![asset] = new]
      BY <2>2 DEF update_asset
    <3> HIDE DEF new
    <3>4. QED
      BY <1>1, <1>2, <3>2, <3>3 DEF TypeOK
  <2>3. QED
    BY <2>1, <2>2
<1>4. FastOnFlight' = FastOnFlight
  BY <1>1 DEF FastOnFlight, OnFlight
<1>5. \A m \in FastOnFlight : IndexOf[m] \in Indexes \ (rem \cup DOMAIN add)
  BY <1>1, <1>2, RelayQueueAssumption
     DEF has_active_transfers, FastOnFlight, OnFlight, FastRegistered, get_asset_info
<1>6. \A a \in Assets : Held(a)' = Held(a)
  BY <1>2, <1>4, <1>5 DEF Held
<1>7. QED
  BY <1>3, <1>4, <1>6, SameHoldings

LEMMA CapAccountingKept ==
    ASSUME FewOnFlight, CapAccounting, FastOnFlight' = FastOnFlight,
           UNCHANGED <<AssetCaps, AssetIndexes>>
    PROVE (FewOnFlight /\ CapAccounting)'
BY SameHoldings DEF Held

LEMMA CapAccountingStep ==
    ASSUME IInv, FewOnFlight, CapAccounting, [Next]_vars
    PROVE (FewOnFlight /\ CapAccounting)'
<1>1. ASSUME NEW r \in Accounts, NEW m \in Messages, NEW t \in TxIds, on_flight_poll(r, m, t)
      PROVE (FewOnFlight /\ CapAccounting)'
  <2>1. CanPollOnFlight(r, m, t) /\ UNCHANGED AssetIndexes
    BY <1>1 DEF on_flight_poll
  <2>2. CASE ApproveTransfer(m, t)
    BY <2>1, <2>2, CapAccountingApprove
  <2>3. CASE StoreVote(r, m, t)
    BY <2>1, <2>3, CapAccountingKept DEF StoreVote, FastOnFlight, OnFlight
  <2>4. QED
    BY <1>1, <2>2, <2>3 DEF on_flight_poll
<1>2. ASSUME NEW r \in Accounts, NEW m \in Messages, NEW claimed \in Statuses,
             finalize_poll(r, m, claimed)
      PROVE (FewOnFlight /\ CapAccounting)'
  BY <1>2, CapAccountingFinalize
<1>3. CASE UNCHANGED <<assetVars, transferVars>>
  BY <1>3, CapAccountingKept DEF assetVars, transferVars, FastOnFlight, OnFlight
<1>4. CASE Governance
  <2>1. \A new \in Sockets : set_socket(new) => UNCHANGED <<assetVars, transferVars>>
    BY DEF set_socket
  <2>2. QED
    BY <1>3, <1>4, <2>1, CapAccountingAdd, CapAccountingRemove, CapAccountingUpdate
       DEF Governance
<1>5. CASE SocketContract
  BY <1>3, <1>5 DEF SocketContract, SocketRegister, SocketAdvance
<1>6. ASSUME NEW rho \in Replacements, NEW selected \in SUBSET Accounts,
             new_round(rho, selected)
      PROVE (FewOnFlight /\ CapAccounting)'
  <2>1. FastOnFlight' = FastOnFlight
    BY <1>6, NewRoundOptions DEF FastOnFlight, OnFlight
  <2>2. QED
    BY <1>6, <2>1, CapAccountingKept DEF new_round, assetVars
<1>7. CASE UNCHANGED vars
  BY <1>3, <1>7 DEF vars
<1>8. QED
  BY <1>1, <1>2, <1>3, <1>4, <1>5, <1>6, <1>7 DEF Next, Relayer, Membership

LEMMA BooksKept == Spec => [](IInv /\ FewOnFlight /\ CapAccounting)
<1>1. Init => FewOnFlight /\ CapAccounting
  <2> SUFFICES ASSUME Init PROVE FewOnFlight /\ CapAccounting
    OBVIOUS
  <2>1. FastOnFlight = {}
    BY DEF Init, FastOnFlight, OnFlight
  <2>2. \A asset \in Assets : AssetCaps[asset] = None
    BY DEF Init
  <2>3. QED
    BY <2>1, <2>2, FS_EmptySet DEF FewOnFlight, CapAccounting
<1>2. IInv /\ FewOnFlight /\ CapAccounting /\ [Next]_vars => (FewOnFlight /\ CapAccounting)'
  BY CapAccountingStep
<1>3. QED
  BY InitIInv, NextIInv, <1>1, <1>2, PTL DEF Spec

(* The books are exact: on_flight_cap of every asset is the sum of the amounts
   of its Fast transfers on flight, whatever approvals, finalizations and
   asset updates happen in between. *)
THEOREM CapAccountingSafety == Spec => []CapAccounting
BY BooksKept, PTL

(* finalize_poll can always release the cap of a Fast transfer: the asset is
   registered and its on_flight_cap is at least the amount of the transfer. *)
THEOREM ReleaseSafety == Spec => []ReleasePossible
<1>1. IInv /\ FewOnFlight /\ CapAccounting => ReleasePossible
  <2> SUFFICES ASSUME IInv, FewOnFlight, CapAccounting, NEW m \in FastOnFlight
               PROVE /\ get_asset_info(m) # None
                     /\ AssetCaps[get_asset_info(m)].on_flight_cap >= Amount[m]
    BY DEF ReleasePossible
  <2> DEFINE asset == get_asset_info(m)
  <2>1. asset # None /\ asset = AssetIndexes[IndexOf[m]] /\ m \in Messages
    BY DEF IInv, FastRegistered, get_asset_info, FastOnFlight
  <2>2. asset \in Assets /\ AssetCaps[asset] # None
    BY <2>1, RelayQueueAssumption DEF get_asset_info, IInv, TypeOK
  <2>3. m \in Held(asset)
    BY <2>1 DEF Held
  <2> HIDE DEF asset
  <2>4. IsFiniteSet(Held(asset)) /\ IsFiniteSet(Held(asset) \ {m})
    BY HeldFinite, FS_RemoveElement
  <2>5. /\ SumOver(Amount, Held(asset)) = SumOver(Amount, Held(asset) \ {m}) + Amount[m]
        /\ SumOver(Amount, Held(asset) \ {m}) \in Nat
    BY <2>3, <2>4, HeldFinite, SumWithout, SumType
  <2>6. AssetCaps[asset].on_flight_cap >= Amount[m]
    BY <2>1, <2>2, <2>5, CapAccountingByAsset, RelayQueueAssumption
  <2>7. QED
    BY <2>1, <2>6 DEF asset
<1>2. QED
  BY <1>1, BooksKept, PTL

-----------------------------------------------------------------------------
(* The slots of the relayers.  Only finitely many entries are pending, so
   their number is meaningful. *)
Entries == {entry \in Messages \X TxIds : entry[2] \in Stored(entry[1])}

FewPending == IsFiniteSet(Entries)

LEMMA IntroducedFinite ==
    ASSUME FewPending, NEW r
    PROVE IsFiniteSet(Introduced(r)) /\ Cardinality(Introduced(r)) \in Nat
<1>1. Introduced(r) \subseteq Entries
  BY DEF Introduced, IntroducedBy, Entries
<1>2. QED
  BY <1>1, FS_Subset, FS_CardinalityType DEF FewPending

(* Steps that take no entry from its introducer and charge nobody. *)
LEMMA SlotsKept ==
    ASSUME FewPending, NoSlotLeak, UNCHANGED <<PendingTransfers, PendingTransferCount>>
    PROVE (FewPending /\ NoSlotLeak)'
BY DEF FewPending, Entries, NoSlotLeak, Introduced, IntroducedBy, Stored

LEMMA SlotsApprove ==
    ASSUME IInv, FewPending, NoSlotLeak, NEW m \in Messages, NEW t \in TxIds,
           ApproveTransfer(m, t)
    PROVE (FewPending /\ NoSlotLeak)'
<1>1. TypeOK
  BY DEF IInv
<1>2. \A n \in Messages : \A s \in TxIds :
         PendingTransfers'[n][s] = IF n = m THEN <<>> ELSE PendingTransfers[n][s]
  BY <1>1 DEF ApproveTransfer, EntriesCleared, TypeOK
<1>3. Entries' \subseteq Entries
  BY <1>2 DEF Entries, Stored
<1>4. FewPending'
  BY <1>3, FS_Subset DEF FewPending
<1>5. ASSUME NEW r \in Accounts
      PROVE PendingTransferCount'[r] <= Cardinality(Introduced(r)')
  <2> DEFINE cleared == {entry \in {m} \X TxIds : entry[2] \in IntroducedBy(m, r)}
             bijection == [entry \in cleared |-> entry[2]]
  <2>1. Introduced(r)' = Introduced(r) \ cleared /\ cleared \subseteq Introduced(r)
    <3>1. \A n \in Messages : \A s \in TxIds :
             s \in IntroducedBy(n, r)' <=> n # m /\ s \in IntroducedBy(n, r)
      BY <1>2 DEF IntroducedBy, Stored
    <3>2. QED
      BY <3>1 DEF Introduced
  <2>2. IntroducedBy(m, r) \subseteq TxIds
    BY DEF IntroducedBy, Stored
  <2>3. bijection \in Bijection(cleared, IntroducedBy(m, r))
    <3>1. bijection \in [cleared -> IntroducedBy(m, r)]
      OBVIOUS
    <3>2. \A e, f \in cleared : bijection[e] = bijection[f] => e = f
      OBVIOUS
    <3>3. \A s \in IntroducedBy(m, r) : <<m, s>> \in cleared /\ bijection[<<m, s>>] = s
      BY <2>2
    <3>4. QED
      BY <3>1, <3>2, <3>3 DEF Bijection, Injection, Surjection, IsInjective
  <2>4. /\ IsFiniteSet(Introduced(r)) /\ IsFiniteSet(cleared)
        /\ Cardinality(Introduced(r)) \in Nat /\ Cardinality(cleared) \in Nat
    BY <2>1, IntroducedFinite, FS_Subset, FS_CardinalityType
  <2>5. Cardinality(IntroducedBy(m, r)) = Cardinality(cleared)
    BY <2>3, <2>4, FS_Bijection DEF ExistsBijection
  <2>6. Cardinality(Introduced(r)') = Cardinality(Introduced(r)) - Cardinality(cleared)
    <3>1. Introduced(r) \cap cleared = cleared
      BY <2>1
    <3> HIDE DEF cleared
    <3>2. Cardinality(Introduced(r) \ cleared) =
             Cardinality(Introduced(r)) - Cardinality(Introduced(r) \cap cleared)
      BY <2>4, FS_Difference
    <3>3. QED
      BY <2>1, <3>1, <3>2
  <2>7. PendingTransferCount'[r] =
           saturating_sub(PendingTransferCount[r], Cardinality(IntroducedBy(m, r)))
    BY DEF ApproveTransfer
  <2>8. Cardinality(cleared) <= Cardinality(Introduced(r))
    BY <2>1, <2>4, FS_Subset
  <2> HIDE DEF cleared, bijection
  <2>9. QED
    BY <1>1, <2>4, <2>5, <2>6, <2>7, <2>8 DEF saturating_sub, NoSlotLeak, TypeOK
<1>6. QED
  BY <1>4, <1>5 DEF NoSlotLeak

(* A vote charges the relayer exactly when it introduces the entry. *)
LEMMA SlotsStore ==
    ASSUME IInv, FewPending, NoSlotLeak,
           NEW r \in Accounts, NEW m \in Messages, NEW t \in TxIds, StoreVote(r, m, t)
    PROVE (FewPending /\ NoSlotLeak)'
<1> DEFINE voters == PendingTransfers[m][t]
<1>1. TypeOK /\ voters \in Seq(Accounts)
  BY DEF IInv, TypeOK
<1>2. \A n \in Messages : \A s \in TxIds :
         PendingTransfers'[n][s] = IF n = m /\ s = t THEN Append(voters, r)
                                   ELSE PendingTransfers[n][s]
  BY <1>1 DEF StoreVote, TypeOK
<1>3. Append(voters, r) # <<>>
  BY <1>1, AppendProperties
<1>4. Head(Append(voters, r)) = IF voters = <<>> THEN r ELSE Head(voters)
  <2>1. Len(voters) \in Nat /\ (voters = <<>> <=> Len(voters) = 0)
    BY <1>1, LenProperties, EmptySeq
  <2>2. /\ Head(Append(voters, r)) = Append(voters, r)[1]
        /\ voters # <<>> => Head(voters) = voters[1]
    <3>1. Append(voters, r) \in Seq(Accounts)
      BY <1>1, AppendProperties
    <3>2. \A list \in Seq(Accounts) : list # <<>> => Head(list) = list[1]
      BY HeadTailProperties
    <3> HIDE DEF voters
    <3>3. QED
      BY <1>1, <1>3, <3>1, <3>2
  <2>3. Append(voters, r)[1] = IF voters = <<>> THEN r ELSE voters[1]
    BY <1>1, <2>1, AppendProperties
  <2>4. QED
    BY <2>2, <2>3
<1>5. t \in Stored(m) <=> voters # <<>>
  BY DEF Stored
<1> HIDE DEF voters
<1>6. Entries' = Entries \cup {<<m, t>>}
  <2>1. \A n \in Messages : \A s \in TxIds :
           s \in Stored(n)' <=> s \in Stored(n) \/ (n = m /\ s = t)
    BY <1>2, <1>3 DEF Stored
  <2>2. QED
    BY <2>1 DEF Entries
<1>7. FewPending'
  BY <1>6, FS_AddElement DEF FewPending
<1>8. CASE t \in Stored(m)
  <2>1. \A a \in Accounts : Introduced(a)' = Introduced(a)
    <3>1. \A a \in Accounts, n \in Messages : \A s \in TxIds :
             s \in IntroducedBy(n, a)' <=> s \in IntroducedBy(n, a)
      BY <1>2, <1>3, <1>4, <1>5, <1>8 DEF IntroducedBy, Stored, voters
    <3>2. QED
      BY <3>1 DEF Introduced
  <2>2. PendingTransferCount' = PendingTransferCount
    BY <1>8 DEF StoreVote
  <2>3. QED
    BY <1>7, <2>1, <2>2 DEF NoSlotLeak
<1>9. CASE t \notin Stored(m)
  <2>1. \A a \in Accounts : a # r => Introduced(a)' = Introduced(a)
    <3>1. \A a \in Accounts, n \in Messages : \A s \in TxIds :
             a # r => (s \in IntroducedBy(n, a)' <=> s \in IntroducedBy(n, a))
      BY <1>2, <1>3, <1>4, <1>5, <1>9 DEF IntroducedBy, Stored
    <3>2. QED
      BY <3>1 DEF Introduced
  <2>2. Introduced(r)' = Introduced(r) \cup {<<m, t>>} /\ <<m, t>> \notin Introduced(r)
    <3>1. \A n \in Messages : \A s \in TxIds :
             s \in IntroducedBy(n, r)' <=> s \in IntroducedBy(n, r) \/ (n = m /\ s = t)
      BY <1>2, <1>3, <1>4, <1>5, <1>9 DEF IntroducedBy, Stored
    <3>2. t \notin IntroducedBy(m, r)
      BY <1>9 DEF IntroducedBy
    <3>3. QED
      BY <3>1, <3>2 DEF Introduced
  <2>3. Cardinality(Introduced(r)') = Cardinality(Introduced(r)) + 1
    BY <2>2, IntroducedFinite, FS_AddElement
  <2>4. \A a \in Accounts : PendingTransferCount'[a] =
           IF a = r THEN PendingTransferCount[a] + 1 ELSE PendingTransferCount[a]
    BY <1>1, <1>9 DEF StoreVote, TypeOK
  <2>5. \A a \in Accounts : /\ Cardinality(Introduced(a)) \in Nat
                            /\ PendingTransferCount[a] \in Nat
    BY <1>1, IntroducedFinite DEF TypeOK
  <2>6. ASSUME NEW a \in Accounts
        PROVE PendingTransferCount'[a] <= Cardinality(Introduced(a)')
    <3>1. PendingTransferCount[a] <= Cardinality(Introduced(a))
      BY DEF NoSlotLeak
    <3>2. CASE a = r
      <4>1. /\ PendingTransferCount'[a] = PendingTransferCount[a] + 1
            /\ PendingTransferCount[a] \in Nat /\ Cardinality(Introduced(a)) \in Nat
        BY <2>4, <2>5, <3>2
      <4>2. Cardinality(Introduced(a)') = Cardinality(Introduced(a)) + 1
        BY <2>3, <3>2
      <4>3. QED
        BY <3>1, <4>1, <4>2
    <3>3. CASE a # r
      BY <2>1, <2>4, <3>1, <3>3
    <3>4. QED
      BY <3>2, <3>3
  <2>7. QED
    BY <1>7, <2>6 DEF NoSlotLeak
<1>10. QED
  BY <1>8, <1>9

(* The first voter of an entry is renamed, or it is not replaced. *)
LEMMA ReplaceVotersHead ==
    ASSUME NEW voters \in Seq(Accounts), NEW rho,
           \A a \in DOMAIN rho : rho[a] \in Accounts, voters # <<>>
    PROVE Head(ReplaceVoters(voters, rho)) =
             IF Head(voters) \in DOMAIN rho THEN rho[Head(voters)] ELSE Head(voters)
<1>1. /\ DOMAIN voters = 1..Len(voters) /\ Len(voters) \in Nat \ {0}
      /\ Head(voters) = voters[1]
  BY LenProperties, EmptySeq, HeadTailProperties
<1>2. 1 \in DOMAIN voters /\ 1..(1 - 1) = {}
  BY <1>1
<1>3. ReplaceVoters(voters, rho)[1] =
         IF voters[1] \in DOMAIN rho THEN rho[voters[1]] ELSE voters[1]
  BY <1>2 DEF ReplaceVoters
<1>4. ReplaceVoters(voters, rho) \in Seq(Accounts) /\ ReplaceVoters(voters, rho) # <<>>
  BY ReplaceVotersType, ReplaceVotersEmpty
<1>5. Head(ReplaceVoters(voters, rho)) = ReplaceVoters(voters, rho)[1]
  BY <1>4, HeadTailProperties
<1>6. QED
  BY <1>1, <1>3, <1>5

(* Entries move with the count of the account that introduced them. *)
LEMMA SlotsNewRound ==
    ASSUME IInv, FewPending, NoSlotLeak, NEW rho \in Replacements,
           NEW selected \in SUBSET Accounts, new_round(rho, selected)
    PROVE (FewPending /\ NoSlotLeak)'
<1>1. /\ TypeOK
      /\ DOMAIN rho \subseteq Accounts
      /\ \A a \in DOMAIN rho : rho[a] \in Accounts
  <2>1. PICK olds \in SUBSET RelayerState : rho \in [olds -> Accounts \ RelayerState]
    BY DEF Replacements
  <2>2. TypeOK /\ RelayerState \subseteq Accounts
    BY DEF IInv, TypeOK, RelayerTypeOK
  <2>3. QED
    BY <2>1, <2>2
<1>2. \A n \in Messages : \A s \in TxIds :
         PendingTransfers'[n][s] = ReplaceVoters(PendingTransfers[n][s], rho)
  BY DEF new_round, replace_authority
<1>3. \A n \in Messages : \A s \in TxIds : PendingTransfers[n][s] \in Seq(Accounts)
  BY <1>1 DEF TypeOK
<1>4. \A n \in Messages : \A s \in TxIds : s \in Stored(n) =>
         /\ s \in Stored(n)'
         /\ Head(PendingTransfers'[n][s]) =
               IF Head(PendingTransfers[n][s]) \in DOMAIN rho
               THEN rho[Head(PendingTransfers[n][s])] ELSE Head(PendingTransfers[n][s])
  <2> SUFFICES ASSUME NEW n \in Messages, NEW s \in TxIds, s \in Stored(n)
               PROVE /\ s \in Stored(n)'
                     /\ Head(PendingTransfers'[n][s]) =
                           IF Head(PendingTransfers[n][s]) \in DOMAIN rho
                           THEN rho[Head(PendingTransfers[n][s])]
                           ELSE Head(PendingTransfers[n][s])
    OBVIOUS
  <2> DEFINE voters == PendingTransfers[n][s]
  <2>1. voters \in Seq(Accounts) /\ voters # <<>> /\ PendingTransfers'[n][s] = ReplaceVoters(voters, rho)
    BY <1>2, <1>3 DEF Stored
  <2> HIDE DEF voters
  <2>2. /\ ReplaceVoters(voters, rho) # <<>>
        /\ Head(ReplaceVoters(voters, rho)) =
              IF Head(voters) \in DOMAIN rho THEN rho[Head(voters)] ELSE Head(voters)
    BY <1>1, <2>1, ReplaceVotersEmpty, ReplaceVotersHead
  <2>3. QED
    BY <2>1, <2>2 DEF Stored, voters
<1>5. Entries' = Entries
  <2>1. \A n \in Messages : \A s \in TxIds :
           PendingTransfers'[n][s] = <<>> <=> PendingTransfers[n][s] = <<>>
    BY <1>1, <1>2, <1>3, ReplaceVotersEmpty
  <2>2. \A n \in Messages : Stored(n)' = Stored(n)
    BY <2>1 DEF Stored
  <2>3. QED
    BY <2>2 DEF Entries
<1>6. FewPending'
  BY <1>5 DEF FewPending
<1>7. \A a \in DOMAIN rho : Introduced(a) \subseteq Introduced(rho[a])'
  BY <1>4 DEF Introduced, IntroducedBy
<1>8. \A a \in Accounts \ DOMAIN rho : Introduced(a) \subseteq Introduced(a)'
  BY <1>4 DEF Introduced, IntroducedBy
<1>9. \A a \in Accounts : /\ IsFiniteSet(Introduced(a)')
                          /\ Cardinality(Introduced(a)') \in Nat
                          /\ Cardinality(Introduced(a)) \in Nat
                          /\ PendingTransferCount[a] \in Nat
                          /\ PendingTransferCount[a] <= Cardinality(Introduced(a))
  <2>1. \A a \in Accounts : Introduced(a)' \subseteq Entries'
    BY DEF Introduced, IntroducedBy, Entries
  <2>2. QED
    BY <1>1, <1>6, <2>1, FS_Subset, FS_CardinalityType, IntroducedFinite
       DEF FewPending, NoSlotLeak, TypeOK
<1>10. ASSUME NEW r \in Accounts
       PROVE ReplacedCount(rho, r) <= Cardinality(Introduced(r)')
  <2> DEFINE olds == {old \in DOMAIN rho : rho[old] = r /\ PendingTransferCount[old] > 0}
  <2>1. CASE r \in DOMAIN rho
    <3>1. ReplacedCount(rho, r) = 0
      BY <2>1 DEF ReplacedCount
    <3>2. QED
      BY <1>9, <3>1
  <2>2. CASE r \notin DOMAIN rho /\ olds # {}
    <3>1. PICK old \in olds : old = CHOOSE o \in olds : TRUE
      BY <2>2
    <3>2. ReplacedCount(rho, r) = PendingTransferCount[old]
      BY <2>2, <3>1 DEF ReplacedCount
    <3>3. Introduced(old) \subseteq Introduced(r)' /\ old \in Accounts
      BY <1>1, <1>7, <3>1
    <3>4. Cardinality(Introduced(old)) <= Cardinality(Introduced(r)')
      BY <1>9, <3>3, FS_Subset
    <3>5. /\ PendingTransferCount[old] \in Nat
          /\ Cardinality(Introduced(old)) \in Nat /\ Cardinality(Introduced(r)') \in Nat
          /\ PendingTransferCount[old] <= Cardinality(Introduced(old))
      BY <1>9, <3>3
    <3>6. QED
      BY <3>2, <3>4, <3>5
  <2>3. CASE r \notin DOMAIN rho /\ olds = {}
    <3>1. ReplacedCount(rho, r) = PendingTransferCount[r]
      BY <2>3 DEF ReplacedCount
    <3>2. Cardinality(Introduced(r)) <= Cardinality(Introduced(r)')
      BY <1>8, <1>9, <2>3, FS_Subset
    <3>3. QED
      BY <1>9, <3>1, <3>2
  <2>4. QED
    BY <2>1, <2>2, <2>3
<1>11. QED
  BY <1>6, <1>10 DEF NoSlotLeak, new_round, replace_authority

(* A relayer is never charged for an entry that is gone: votes, approvals of
   competing entries and replacements of the relayer keep its count within
   the entries it introduced. *)
THEOREM SlotSafety == Spec => []NoSlotLeak
<1>1. Init => FewPending /\ NoSlotLeak
  <2> SUFFICES ASSUME Init PROVE FewPending /\ NoSlotLeak
    OBVIOUS
  <2>1. Entries = {} /\ \A r \in Accounts : Introduced(r) = {}
    BY DEF Init, Entries, Stored, Introduced, IntroducedBy
  <2>2. \A r \in Accounts : PendingTransferCount[r] = 0
    BY DEF Init
  <2>3. QED
    BY <2>1, <2>2, FS_EmptySet DEF FewPending, NoSlotLeak
<1>2. IInv /\ FewPending /\ NoSlotLeak /\ [Next]_vars => (FewPending /\ NoSlotLeak)'
  <2> SUFFICES ASSUME IInv, FewPending, NoSlotLeak, [Next]_vars
               PROVE (FewPending /\ NoSlotLeak)'
    OBVIOUS
  <2>1. ASSUME NEW r \in Accounts, NEW m \in Messages, NEW t \in TxIds,
               on_flight_poll(r, m, t)
        PROVE (FewPending /\ NoSlotLeak)'
    BY <2>1, SlotsApprove, SlotsStore DEF on_flight_poll
  <2>2. \A r \in Accounts, m \in Messages, claimed \in Statuses :
           finalize_poll(r, m, claimed) => UNCHANGED <<PendingTransfers, PendingTransferCount>>
    BY DEF finalize_poll, pendingVars
  <2>3. Governance => UNCHANGED transferVars
    <3>1. \A new \in Sockets : set_socket(new) => UNCHANGED transferVars
      BY DEF set_socket
    <3>2. \A asset, cap, hooks : add_asset(asset, cap, hooks) => UNCHANGED transferVars
      BY DEF add_asset
    <3>3. \A asset : remove_asset(asset) => UNCHANGED transferVars
      BY DEF remove_asset
    <3>4. \A asset, cap, add, upd, rem :
             update_asset(asset, cap, add, upd, rem) => UNCHANGED transferVars
      BY DEF update_asset
    <3>5. QED
      BY <3>1, <3>2, <3>3, <3>4 DEF Governance
  <2>4. SocketContract => UNCHANGED transferVars
    BY DEF SocketContract, SocketRegister, SocketAdvance
  <2>5. ASSUME NEW rho \in Replacements, NEW selected \in SUBSET Accounts,
               new_round(rho, selected)
        PROVE (FewPending /\ NoSlotLeak)'
    BY <2>5, SlotsNewRound
  <2>6. CASE UNCHANGED <<PendingTransfers, PendingTransferCount>>
    BY <2>6, SlotsKept
  <2>7. UNCHANGED transferVars \/ UNCHANGED vars =>
           UNCHANGED <<PendingTransfers, PendingTransferCount>>
    BY DEF transferVars, pendingVars, vars
  <2>8. QED
    BY <2>1, <2>2, <2>3, <2>4, <2>5, <2>6, <2>7 DEF Next, Relayer, Membership
<1>3. QED
  BY InitIInv, NextIInv, <1>1, <1>2, PTL DEF Spec

=============================================================================
