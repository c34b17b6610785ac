--------------------------- MODULE WalletSigning ---------------------------
(***************************************************************************)
(* The wallet seam of dsh-wallet with the two Ethereum providers of         *)
(* dsh-wallet-ethereum: providers come and go and register an adapter per   *)
(* chain family, and every operation opens a wallet, resolves its           *)
(* credential, loads the key and signs, awaiting each.  Meanwhile the       *)
(* credential may be rotated, the vault's wallet made anew under its name   *)
(* and the provider replaced.                                               *)
(***************************************************************************)
EXTENDS Integers, Sequences

CONSTANTS Providers,    \* provider plugins
          Custody,      \* provider -> "raw" or "ows"
          Serves,       \* provider -> the chain families it registers, in order
          Families,     \* chain families with a known prefix
          Accounts,     \* those of them a vault wallet has an account of
          AccountIndexes, \* what accountIndex of a provider may be configured to
          WalletRows,   \* configured wallets: [chain, selector, keyRef]
          Secrets,      \* credential values: [key, form], form "plain", "quoted", "bare" or "other"
          Operations,   \* operations on the wallet
          MaxGen,       \* provider -> how often it may be loaded
          MaxVault      \* how often the vault wallet is made

VARIABLES wallet,      \* the resolved descriptor, or NoWallet
          accountIndex, \* provider -> the accountIndex it is configured with
          adapters,    \* chain family -> its adapter <<provider, generation>>, or NoAdapter
          provider,    \* provider -> [phase, gen]
          credential,  \* what the wallet's reference resolves to, or Unset
          vault,       \* [id, pass] of the wallet now under the selector
          call,        \* operation -> its activation
          emitted,     \* operation -> the wallet/signed events of it: their addresses
          held         \* history: operation -> what its credential was during the call

walletVars == <<wallet, accountIndex, adapters, provider, credential, vault, call, emitted, held>>

ASSUME SigningAssumption == Serves \in [Providers -> Seq(STRING)]
ASSUME IndexAssumption == AccountIndexes \subseteq Nat

NoWallet == [chain |-> "", selector |-> "", keyRef |-> "none"]
NoAdapter == <<>>
Unset == [key |-> "", form |-> "unset"]
Uncalled == [pc |-> "new", op |-> "", good |-> TRUE, adapter |-> NoAdapter, secret |-> Unset,
             address |-> <<>>, material |-> <<>>, signer |-> <<>>]

(* A row is refused unless its reference has the shape of a name; one bad   *)
(* row and the runtime does not load.                                       *)
resolveDescriptor(row) ==
    IF row.chain = "" \/ row.selector = "" \/ row.keyRef = "not a name" THEN NoWallet ELSE row

SigningInit ==
    /\ \E row \in WalletRows : wallet = resolveDescriptor(row)
    /\ adapters = [c \in Families |-> NoAdapter]
    /\ accountIndex \in [Providers -> AccountIndexes \cup {0}]
    /\ \A p \in Providers : Custody[p] = "raw" => accountIndex[p] = 0
    /\ provider = [p \in Providers |-> [phase |-> "off", gen |-> 0]]
    /\ credential \in Secrets \cup {Unset}
    /\ vault \in [id : {1}, pass : Secrets \cup {Unset}]
    /\ call = [o \in Operations |-> Uncalled]
    /\ emitted = [o \in Operations |-> <<>>]
    /\ held = [o \in Operations |-> {}]

(***************************************************************************)
(* Providers.                                                              *)
(***************************************************************************)
AdapterOf(p) == <<p, provider[p].gen>>

(* The chains of s that precede the first one taken, all if none is.         *)
Free(s) ==
    {s[i] : i \in {j \in 1 .. Len(s) : \A k \in 1 .. j : adapters[s[k]] = NoAdapter}}

(* One registration after the other; a family already taken throws, and the  *)
(* plugin is left with those before it until it is unwound.                  *)
register(p, adapter) ==
    /\ adapters' = [c \in Families |-> IF c \in Free(Serves[p]) THEN adapter ELSE adapters[c]]
    /\ provider' = [provider EXCEPT ![p] =
                       [phase |-> IF Free(Serves[p]) = {Serves[p][i] : i \in 1 .. Len(Serves[p])}
                                  THEN "up" ELSE "failing",
                        gen |-> adapter[2]]]

(* An unknown family is refused before anything is registered; the vault's   *)
(* bindings are awaited, so another provider may register first.             *)
apply(p) ==
    /\ wallet # NoWallet
    /\ provider[p].phase = "off" /\ provider[p].gen < MaxGen[p]
    /\ \A i \in 1 .. Len(Serves[p]) : Serves[p][i] \in Families
    /\ \/ /\ Custody[p] = "raw"
          /\ register(p, <<p, provider[p].gen + 1>>)
       \/ /\ Custody[p] = "ows"
          /\ provider' = [provider EXCEPT ![p].phase = "loading"]
          /\ UNCHANGED adapters
    /\ UNCHANGED <<wallet, accountIndex, credential, vault, call, emitted, held>>

SignerLoads(p) ==
    /\ provider[p].phase = "loading"
    /\ register(p, <<p, provider[p].gen + 1>>)
    /\ UNCHANGED <<wallet, accountIndex, credential, vault, call, emitted, held>>

(* The bindings are not installed, or the plugin is unloaded meanwhile.      *)
SignerMissing(p) ==
    /\ provider[p].phase = "loading"
    /\ provider' = [provider EXCEPT ![p].phase = "off"]
    /\ UNCHANGED <<wallet, accountIndex, adapters, credential, vault, call, emitted, held>>

(* Mutant: a disposer empties its family, whoever holds it.                  *)
DisposedBlindly(adapter) ==
    [c \in Families |-> IF \E i \in 1 .. Len(Serves[adapter[1]]) : Serves[adapter[1]][i] = c
                        THEN NoAdapter ELSE adapters[c]]

(* The disposers of an adapter remove its own registrations only.            *)
Disposed(adapter) ==
    [c \in Families |-> IF adapters[c] = adapter THEN NoAdapter ELSE adapters[c]]

Unload(p) ==
    /\ provider[p].phase \in {"up", "failing"}
    /\ adapters' = Disposed(AdapterOf(p))
    /\ provider' = [provider EXCEPT ![p].phase = "off"]
    /\ UNCHANGED <<wallet, accountIndex, credential, vault, call, emitted, held>>

(* A disposer of an earlier registration is called again.                    *)
StaleDisposer(p, g) ==
    /\ g \in 1 .. provider[p].gen
    /\ provider[p].phase \in {"up", "failing"} => g < provider[p].gen
    /\ adapters' = Disposed(<<p, g>>)
    /\ UNCHANGED <<wallet, accountIndex, provider, credential, vault, call, emitted, held>>

(***************************************************************************)
(* One operation: beginOperation, loadKey, then the signature.              *)
(***************************************************************************)
Fails(o) == call' = [call EXCEPT ![o].pc = "failed"]

beginOperation(o, op, good) ==
    /\ call[o].pc = "new" /\ wallet # NoWallet
    /\ \/ /\ adapters[wallet.chain] = NoAdapter
          /\ Fails(o)
       \/ /\ adapters[wallet.chain] # NoAdapter
          /\ call' = [call EXCEPT ![o] =
                        [Uncalled EXCEPT !.pc = IF wallet.keyRef = "none" THEN "loading" ELSE "resolving",
                                         !.op = op, !.good = good, !.adapter = adapters[wallet.chain]]]
    /\ held' = [held EXCEPT ![o] = IF wallet.keyRef = "none" THEN {Unset} ELSE {credential}]
    /\ UNCHANGED <<wallet, accountIndex, adapters, provider, credential, vault, emitted>>

(* The reference is resolved in every operation anew.                        *)
ResolvesCredential(o) ==
    /\ call[o].pc = "resolving"
    /\ \/ /\ credential = Unset
          /\ Fails(o)
       \/ /\ credential # Unset
          /\ call' = [call EXCEPT ![o].pc = "loading", ![o].secret = credential]
    /\ UNCHANGED <<wallet, accountIndex, adapters, provider, credential, vault, emitted, held>>

(* Quotes, blanks and a missing 0x are tolerated in a raw key.               *)
normalizePrivateKey(secret) ==
    IF secret.form \in {"plain", "quoted", "bare"} THEN <<secret.key>> ELSE <<>>

(* The account of a vault wallet at an index of the chain's derivation path. *)
Account(id, index) == <<id, wallet.chain, index>>

(* The first account the vault lists for the chain, if it lists one,         *)
(* whatever index is configured.                                            *)
accountAddress(id) == IF wallet.chain \in Accounts THEN Account(id, 0) ELSE <<>>

Raw(o) == Custody[call[o].adapter[1]] = "raw"
IndexOf(o) == accountIndex[call[o].adapter[1]]

(* The address, and what is kept for the signature: the key itself, or the   *)
(* id of the vault's wallet and the configured index.                       *)
RawLoaded(o) ==
    [address |-> normalizePrivateKey(call[o].secret), material |-> normalizePrivateKey(call[o].secret)]
OwsLoaded(o) == [address |-> accountAddress(vault.id), material |-> <<vault.id, IndexOf(o)>>]
Loaded(o) == IF Raw(o) THEN RawLoaded(o) ELSE OwsLoaded(o)

loadKey(o) ==
    /\ call[o].pc = "loading"
    /\ \/ /\ Loaded(o).address = <<>> \/ ~ Raw(o)
          /\ Fails(o)
       \/ /\ Loaded(o).address # <<>>
          /\ call' = [call EXCEPT ![o].pc = IF call[o].op = "address" THEN "done" ELSE "signing",
                                  ![o].address = Loaded(o).address, ![o].material = Loaded(o).material]
    /\ UNCHANGED <<wallet, accountIndex, adapters, provider, credential, vault, emitted, held>>

(* The key loaded before signs whatever has its shape: a digest, or a        *)
(* payload that is a transaction.                                           *)
RawSigns(o) ==
    IF call[o].op = "sign-message" \/ call[o].good THEN call[o].material ELSE <<>>

(* Mutant: the vault signs with the wallet now under the name.               *)
OwsSignsByName(o) ==
    IF vault.pass = call[o].secret THEN Account(vault.id, call[o].material[2]) ELSE <<>>

(* The vault no longer knows the id of a wallet made anew, and opens for its *)
(* passphrase only; the digest's shape is checked before.  It is given the   *)
(* configured index.                                                        *)
OwsSigns(o) ==
    IF /\ call[o].material[1] = vault.id /\ vault.pass = call[o].secret
       /\ call[o].op = "sign-digest" => call[o].good
    THEN Account(vault.id, call[o].material[2]) ELSE <<>>

Signs(o) == IF Raw(o) THEN RawSigns(o) ELSE OwsSigns(o)

(* The vault may refuse any signature (its policies, a build that knows no   *)
(* digests).  The event follows the signature.                              *)
sign(o) ==
    /\ call[o].pc = "signing"
    /\ \/ /\ Signs(o) = <<>> \/ ~ Raw(o)
          /\ Fails(o)
          /\ UNCHANGED emitted
       \/ /\ Signs(o) # <<>>
          /\ call' = [call EXCEPT ![o].pc = "done", ![o].signer = Signs(o)]
          /\ emitted' = [emitted EXCEPT ![o] = Append(@, call[o].address)]
    /\ UNCHANGED <<wallet, accountIndex, adapters, provider, credential, vault, held>>

(***************************************************************************)
(* Environment.                                                            *)
(***************************************************************************)
Active(o) == call[o].pc \in {"resolving", "loading", "signing"}

RotateCredential ==
    /\ \E o \in Operations : Active(o)
    /\ credential' \in Secrets \cup {Unset}
    /\ held' = [o \in Operations |->
                  IF Active(o) /\ wallet.keyRef # "none" THEN held[o] \cup {credential'} ELSE held[o]]
    /\ UNCHANGED <<wallet, accountIndex, adapters, provider, vault, call, emitted>>

VaultRemade ==
    /\ \E o \in Operations : Active(o)
    /\ vault.id < MaxVault
    /\ vault' \in [id : {vault.id + 1}, pass : Secrets \cup {Unset}]
    /\ UNCHANGED <<wallet, accountIndex, adapters, provider, credential, call, emitted, held>>

SigningNext ==
    \/ \E p \in Providers :
         \/ apply(p) \/ SignerLoads(p) \/ SignerMissing(p)
         \/ Unload(p) \/ \E g \in 1 .. MaxGen[p] : StaleDisposer(p, g)
    \/ \E o \in Operations :
         \/ \E op \in {"address", "sign-message", "sign-transaction", "sign-digest"} :
            \E good \in IF op \in {"address", "sign-message"} THEN {TRUE} ELSE BOOLEAN :
              beginOperation(o, op, good)
         \/ ResolvesCredential(o) \/ loadKey(o) \/ sign(o)
    \/ RotateCredential \/ VaultRemade

SigningSpec == SigningInit /\ [][SigningNext]_walletVars

(***************************************************************************)
(* Property.                                                               *)
(***************************************************************************)
Signed_(o) == call[o].pc = "done" /\ call[o].op # "address"

(* Whatever is rotated, remade or replaced between the awaits: what signed is *)
(* the raw key whose address the caller is told or, in the vault, the account *)
(* of the configured index of the wallet and the chain whose account he is    *)
(* told, which is the one he is told when that index is 0; a raw key and a   *)
(* passphrase are ones the credential had during the call, and observers     *)
(* hear of each signature once, of nothing else, under the address told.     *)
(* And a provider that came up keeps its families until it unloads,          *)
(* whichever older disposer is called.                                       *)
SignsAsTold ==
    /\ \A o \in Operations :
         /\ call[o].pc = "done" =>
              /\ call[o].secret \in held[o]
              /\ Raw(o) => \E s \in held[o] : call[o].address = normalizePrivateKey(s)
         /\ Signed_(o) =>
              IF Raw(o) THEN call[o].signer = call[o].address
              ELSE call[o].signer = [call[o].address EXCEPT ![3] = IndexOf(o)]
         /\ Signed_(o) /\ IndexOf(o) = 0 => call[o].signer = call[o].address
         /\ emitted[o] = IF Signed_(o) THEN <<call[o].address>> ELSE <<>>
    /\ \A p \in Providers :
         provider[p].phase = "up" =>
           \A i \in 1 .. Len(Serves[p]) : adapters[Serves[p][i]] = AdapterOf(p)

(* "account index within each wallet's derivation path" (README.md:90 of     *)
(* dsh-wallet-ethereum): the account a caller is told is the one that signs. *)
(* (It does not hold for an index other than 0: README, Divergences.)        *)
SignerIsNamed ==
    \A o \in Operations : Signed_(o) => call[o].signer = call[o].address

============================================================================
