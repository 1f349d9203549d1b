----------------------------- MODULE Governance -----------------------------
(***************************************************************************)
(* The registry of tokens, validators and NFT factories (Governance.sol)   *)
(* and the contract that lists tokens for a fee (TokenGovernance.sol).     *)
(* Token ids are what blocks, the server's tables and the Merkle tree of   *)
(* balances name a token by, so the registry may only ever grow.           *)
(***************************************************************************)
EXTENDS Integers, FiniteSets

CONSTANTS
  Addresses,     \* callers: governors, listers, token governors
  TokenGov,      \* address of the TokenGovernance contract
  Tokens, NoToken,   \* addresses of ERC20 tokens, and address(0)
  Factories,     \* NFT factories, and NoFactory, address(0)
  NoFactory,
  Creators,      \* <<account id, address>> of NFT creators
  MaxTokens,     \* MAX_AMOUNT_OF_REGISTERED_TOKENS
  Caps           \* listing caps that may be set

VARIABLES
  networkGovernor, tokenGovernance, totalTokens, tokenAddresses, tokenIds,
  validators, pausedTokens, nftFactories, defaultFactory,
  listingCap,    \* of TokenGovernance
  destroyed      \* factories that called selfdestruct

registry == <<totalTokens, tokenAddresses, tokenIds>>
factories == <<nftFactories, defaultFactory, destroyed>>
roles == <<networkGovernor, tokenGovernance, validators>>
vars == <<roles, registry, pausedTokens, factories, listingCap>>

Init ==
  /\ networkGovernor \in Addresses
  /\ tokenGovernance = TokenGov
  /\ totalTokens = 0
  /\ tokenAddresses = [id \in 1..MaxTokens |-> NoToken]
  /\ tokenIds = [t \in Tokens |-> 0]
  /\ validators = {}
  /\ pausedTokens = {}
  /\ nftFactories = [c \in Creators |-> NoFactory]
  /\ defaultFactory = NoFactory
  /\ listingCap \in Caps
  /\ destroyed = {}

(* Governance.sol, by the governor.                                        *)

ChangeGovernor(caller, new) ==
  /\ caller = networkGovernor
  /\ networkGovernor' = new
  /\ UNCHANGED <<tokenGovernance, validators, registry, pausedTokens,
                 factories, listingCap>>

ChangeTokenGovernance(caller, new) ==
  /\ caller = networkGovernor
  /\ tokenGovernance' = new
  /\ UNCHANGED <<networkGovernor, validators, registry, pausedTokens,
                 factories, listingCap>>

SetValidator(caller, validator, active) ==
  /\ caller = networkGovernor
  /\ validators' = IF active THEN validators \cup {validator}
                             ELSE validators \ {validator}
  /\ UNCHANGED <<networkGovernor, tokenGovernance, registry, pausedTokens,
                 factories, listingCap>>

SetTokenPaused(caller, token, paused) ==
  /\ caller = networkGovernor
  /\ tokenIds[token] # 0
  /\ pausedTokens' = IF paused THEN pausedTokens \cup {tokenIds[token]}
                               ELSE pausedTokens \ {tokenIds[token]}
  /\ UNCHANGED <<roles, registry, factories, listingCap>>

SetDefaultNFTFactory(caller, factory) ==
  /\ caller = networkGovernor
  /\ factory # NoFactory
  /\ defaultFactory = NoFactory
  /\ defaultFactory' = factory
  /\ UNCHANGED <<roles, registry, pausedTokens, nftFactories, destroyed,
                 listingCap>>

(* Governance.sol, by others.                                              *)

\* mutant: a token may be listed again
AddToken_Again(caller, token) ==
  /\ caller = tokenGovernance
  /\ totalTokens < MaxTokens
  /\ totalTokens' = totalTokens + 1
  /\ tokenAddresses' = [tokenAddresses EXCEPT ![totalTokens + 1] = token]
  /\ tokenIds' = [tokenIds EXCEPT ![token] = totalTokens + 1]

AddToken(caller, token) ==
  /\ caller = tokenGovernance
  /\ tokenIds[token] = 0
  /\ totalTokens < MaxTokens
  /\ totalTokens' = totalTokens + 1
  /\ tokenAddresses' = [tokenAddresses EXCEPT ![totalTokens + 1] = token]
  /\ tokenIds' = [tokenIds EXCEPT ![token] = totalTokens + 1]

\* called directly, when the token governance is an ordinary address
AddTokenDirectly(caller, token) ==
  /\ AddToken(caller, token)
  /\ UNCHANGED <<roles, pausedTokens, factories, listingCap>>

\* the factory calls with the creator's signature of its own address
RegisterNFTFactoryCreator(factory, creator) ==
  /\ nftFactories[creator] = NoFactory
  /\ factory \notin destroyed \cup {NoFactory}
  /\ nftFactories' = [nftFactories EXCEPT ![creator] = factory]
  /\ UNCHANGED <<roles, registry, pausedTokens, defaultFactory, destroyed,
                 listingCap>>

\* getNFTFactory; NoFactory where it reverts
GetNFTFactory(creator) ==
  IF nftFactories[creator] \in destroyed \cup {NoFactory}
    THEN defaultFactory ELSE nftFactories[creator]

\* external: a factory destroys itself, the default one is not destroyed
SelfDestruct(factory) ==
  /\ factory \in Factories \ {NoFactory, defaultFactory}
  /\ destroyed' = destroyed \cup {factory}
  /\ UNCHANGED <<roles, registry, pausedTokens, nftFactories, defaultFactory,
                 listingCap>>

(* TokenGovernance.sol.                                                    *)

\* anyone may list a token; the fee of a caller who is no lister, taken first
\* and given back when the listing reverts, touches nothing modelled here
ListToken(token) ==
  /\ totalTokens < listingCap
  /\ AddToken(TokenGov, token)
  /\ UNCHANGED <<roles, pausedTokens, factories, listingCap>>

SetListingCap(caller, cap) ==
  /\ caller = networkGovernor
  /\ listingCap' = cap
  /\ UNCHANGED <<roles, registry, pausedTokens, factories>>

Next ==
  \/ \E caller \in Addresses :
       \/ \E new \in Addresses : ChangeGovernor(caller, new)
       \/ \E new \in Addresses \cup {TokenGov} :
            ChangeTokenGovernance(caller, new)
       \/ \E v \in Addresses, on \in BOOLEAN : SetValidator(caller, v, on)
       \/ \E t \in Tokens, on \in BOOLEAN : SetTokenPaused(caller, t, on)
       \/ \E f \in Factories : SetDefaultNFTFactory(caller, f)
       \/ \E t \in Tokens : AddTokenDirectly(caller, t)
       \/ \E cap \in Caps : SetListingCap(caller, cap)
  \/ \E t \in Tokens : ListToken(t)
  \/ \E f \in Factories :
       SelfDestruct(f) \/ \E c \in Creators : RegisterNFTFactoryCreator(f, c)

-----------------------------------------------------------------------------
TypeOK ==
  /\ networkGovernor \in Addresses
  /\ tokenGovernance \in Addresses \cup {TokenGov}
  /\ totalTokens \in 0..MaxTokens
  /\ tokenAddresses \in [1..MaxTokens -> Tokens \cup {NoToken}]
  /\ tokenIds \in [Tokens -> 0..MaxTokens]
  /\ pausedTokens \subseteq 1..totalTokens
  /\ nftFactories \in [Creators -> Factories]
  /\ defaultFactory \in Factories

\* Ids and factories are permanent: blocks, balances and NFTs refer to them
\* for ever.  A token keeps its id and the id its token, the ids given are
\* exactly 1..totalTokens, each of one token, and the factory an NFT is
\* withdrawn through changes only when its creator registers the first one
\* or the registered one is destroyed, and then never to none once a default
\* one was set.
RegistryOnlyGrows ==
  [][/\ \A t \in Tokens : tokenIds[t] # 0 => tokenIds'[t] = tokenIds[t]
     /\ \A id \in 1..totalTokens' :
          {t \in Tokens : tokenIds'[t] = id} = {tokenAddresses'[id]}
     /\ \A c \in Creators :
          GetNFTFactory(c) # NoFactory =>
            \/ GetNFTFactory(c)' = GetNFTFactory(c)
            \/ nftFactories[c] = NoFactory /\ nftFactories'[c] \notin destroyed
            \/ nftFactories[c] \in destroyed' /\ GetNFTFactory(c)' = defaultFactory]_vars
=============================================================================
