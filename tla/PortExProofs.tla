---------------------------- MODULE PortExProofs ----------------------------
(* The register cache of the portex driver and the registers of the device,  *)
(* for any number of writers, pins and failing SPI transfers.                *)
EXTENDS PortEx, TLAPS

Level == SUBSET Pin

PortTypes ==
  /\ loaded \in BOOLEAN /\ dirFailed \in BOOLEAN
  /\ cache \in [Port -> Level] /\ gpio \in [Port -> Level]
  /\ iodir \in [Port -> {"in", "out"}]
  /\ pc \in [Writer -> WriterPC]
  /\ req \in [Writer -> Request]
  /\ byte \in [Writer -> Level]
  /\ stale \subseteq Port

\* class_unregister: writers exist only while the module is loaded; one that is
\* idle has no request, and the second half of gpio_all has nothing after it.
WriterInv ==
  \A w \in Writer : pc[w] = "idle" => req[w] = NoRequest

UnloadedIsIdle == ~loaded => \A w \in Writer : pc[w] = "idle"

\* Two calls of portex_write_cached for one port never overlap.
PortsAreExclusive ==
  \A v, w \in Writer, p \in Port : AtPort(v, p) /\ AtPort(w, p) => v = w

\* What a writer has loaded is still what the cache has.
ByteIsFresh ==
  \A w \in Writer : pc[w] \in {"store", "xfer"} => byte[w] = cache[req[w].port]

BaseInv == PortTypes /\ WriterInv /\ UnloadedIsIdle /\ RegistersFollowModule
ExclusiveInv == PortsAreExclusive /\ ByteIsFresh /\ CacheMatchesDevice

-----------------------------------------------------------------------------
\* The other of the two ports.
LEMMA OtherPort ==
  Other(FirstPort) \in Port /\ Other(FirstPort) # FirstPort
    /\ Port = {FirstPort, Other(FirstPort)}
<1>1. PICK q \in Port : q # FirstPort /\ Port = {FirstPort, q}
  BY PortAssumption
<1>2. Other(FirstPort) = q
  BY <1>1 DEF Other
<1> QED
  BY <1>1, <1>2

LEMMA NoRequestType == NoRequest \in Request
  BY OtherPort DEF NoRequest, Request

-----------------------------------------------------------------------------
(* Types, and the registers of an unloaded module.                         *)
LEMMA InitBase == Init => BaseInv
<1> SUFFICES ASSUME Init PROVE BaseInv
  OBVIOUS
<1>1. PortTypes
  BY NoRequestType DEF Init, PortTypes, Level, WriterPC
<1>2. WriterInv /\ UnloadedIsIdle /\ RegistersFollowModule
  BY DEF Init, WriterInv, UnloadedIsIdle, RegistersFollowModule
<1> QED
  BY <1>1, <1>2 DEF BaseInv

\* sysfs: a write to an attribute begins.
LEMMA BeginBase ==
  ASSUME BaseInv, NEW w \in Writer, NEW r \in Request, Begin(w, r)
  PROVE  BaseInv'
<1> USE DEF BaseInv, Begin, hist
<1>1. PortTypes'
  BY DEF PortTypes, WriterPC
<1>2. WriterInv'
  BY DEF PortTypes, WriterInv
<1>3. UnloadedIsIdle' /\ RegistersFollowModule'
  BY DEF UnloadedIsIdle, RegistersFollowModule
<1> QED
  BY <1>1, <1>2, <1>3

LEMMA CallRequest ==
  ASSUME NEW w \in Writer, NEW v \in Value
  PROVE  /\ gpio_all_set(w, v) => \E r \in Request : Begin(w, r) /\ r.all
                                    /\ r.port = FirstPort /\ r.mask = Pin
         /\ \A p \in Port, n \in Pin : gpio_set(w, p, n, v) =>
              \E r \in Request : Begin(w, r) /\ ~r.all /\ r.port = p /\ r.mask = {n}
<1>1. High(v) \in BOOLEAN
  BY DEF High
<1>2. [port |-> FirstPort, mask |-> Pin, high |-> High(v), all |-> TRUE] \in Request
  BY <1>1, OtherPort DEF Request
<1>3. ASSUME NEW p \in Port, NEW n \in Pin
      PROVE  [port |-> p, mask |-> {n}, high |-> High(v), all |-> FALSE] \in Request
  BY <1>1 DEF Request
<1> QED
  BY <1>2, <1>3 DEF gpio_all_set, gpio_set

\* portex_write_cached.
LEMMA WriterBase ==
  ASSUME BaseInv, NEW w \in Writer, WriterStep(w)
  PROVE  BaseInv'
<1> USE DEF BaseInv, hist
<1>0. req[w].port \in Port /\ req[w].mask \in SUBSET Pin /\ byte[w] \in Level
  BY DEF PortTypes, Request
<1>1. loaded
  BY DEF UnloadedIsIdle, WriterStep, CacheLoad, CacheStore, MessageLoad, mcp23s17_write
<1>2. CASE CacheLoad(w) \/ MessageLoad(w)
  <2>1. PortTypes'
    BY <1>0, <1>2 DEF CacheLoad, MessageLoad, PortTypes, WriterPC
  <2>2. WriterInv' /\ UnloadedIsIdle' /\ RegistersFollowModule'
    BY <1>1, <1>2 DEF CacheLoad, MessageLoad, PortTypes, WriterInv, UnloadedIsIdle,
                      RegistersFollowModule
  <2> QED
    BY <2>1, <2>2
<1>3. CASE CacheStore(w)
  <2>1. byte[w] \cup req[w].mask \in Level /\ byte[w] \ req[w].mask \in Level
    BY <1>0 DEF Level
  <2>2. PortTypes'
    <3>1. cache' \in [Port -> Level]
      BY <1>3, <2>1 DEF CacheStore, PortTypes
    <3> QED
      BY <1>3, <3>1 DEF CacheStore, PortTypes, WriterPC, Level
  <2>3. WriterInv' /\ UnloadedIsIdle' /\ RegistersFollowModule'
    BY <1>1, <1>3 DEF CacheStore, PortTypes, WriterInv, UnloadedIsIdle,
                      RegistersFollowModule
  <2> QED
    BY <2>2, <2>3
<1>4. CASE mcp23s17_write(w)
  <2>1. [req[w] EXCEPT !.port = Other(FirstPort)] \in Request
    BY OtherPort DEF PortTypes, Request
  <2>2. req' \in [Writer -> Request] /\ pc' \in [Writer -> WriterPC]
    BY <1>4, <2>1, NoRequestType DEF mcp23s17_write, PortTypes, WriterPC
  <2>3. gpio' \in [Port -> Level] /\ stale' \subseteq Port
    BY <1>0, <1>4 DEF mcp23s17_write, PortTypes
  <2>4. PortTypes'
    BY <1>4, <2>2, <2>3 DEF mcp23s17_write, PortTypes, Level
  <2>5. WriterInv'
    BY <1>4 DEF mcp23s17_write, PortTypes, WriterInv
  <2>6. UnloadedIsIdle' /\ RegistersFollowModule'
    BY <1>1, <1>4 DEF mcp23s17_write, UnloadedIsIdle, RegistersFollowModule
  <2> QED
    BY <2>4, <2>5, <2>6
<1> QED
  BY <1>2, <1>3, <1>4 DEF WriterStep

\* insmod and rmmod.
LEMMA ModuleBase ==
  ASSUME BaseInv, pe_mod_init \/ pe_mod_exit
  PROVE  BaseInv'
<1> USE DEF BaseInv, hist
<1>1. CASE pe_mod_init
  <2>1. iodir' \in [Port -> {"in", "out"}] /\ dirFailed' \in BOOLEAN
    BY <1>1 DEF pe_mod_init, PortTypes, Sent
  <2>2. PortTypes'
    BY <1>1, <2>1 DEF pe_mod_init, PortTypes, Level
  <2>3. WriterInv' /\ UnloadedIsIdle'
    BY <1>1 DEF pe_mod_init, WriterInv, UnloadedIsIdle
  <2>4. RegistersFollowModule'
    BY <1>1 DEF pe_mod_init, RegistersFollowModule, Sent
  <2> QED
    BY <2>2, <2>3, <2>4
<1>2. CASE pe_mod_exit
  <2>1. PICK lost, dirLost \in SUBSET Port :
          /\ gpio' = Sent(gpio, {}, lost) /\ stale' = lost
          /\ iodir' = Sent(iodir, "in", dirLost)
          /\ dirFailed' = (dirFailed \/ dirLost # {})
    BY <1>2 DEF pe_mod_exit
  <2>2. PortTypes'
    <3>1. gpio' \in [Port -> Level] /\ iodir' \in [Port -> {"in", "out"}]
      BY <2>1 DEF PortTypes, Sent, Level
    <3> QED
      BY <1>2, <2>1, <3>1 DEF pe_mod_exit, PortTypes
  <2>3. WriterInv' /\ UnloadedIsIdle'
    BY <1>2 DEF pe_mod_exit, WriterInv, UnloadedIsIdle
  <2>4. RegistersFollowModule'
    BY <1>2, <2>1 DEF pe_mod_exit, RegistersFollowModule, Sent
  <2> QED
    BY <2>2, <2>3, <2>4
<1> QED
  BY <1>1, <1>2

LEMMA NextBase == BaseInv /\ [Next]_vars => BaseInv'
<1> SUFFICES ASSUME BaseInv, [Next]_vars PROVE BaseInv'
  OBVIOUS
<1>1. CASE UNCHANGED vars
  BY <1>1 DEF vars, hist, BaseInv, PortTypes, WriterInv, UnloadedIsIdle,
              RegistersFollowModule
<1>2. ASSUME NEW w \in Writer, NEW v \in Value,
             \/ gpio_all_set(w, v)
             \/ \E p \in Port, n \in Pin : gpio_set(w, p, n, v)
      PROVE  BaseInv'
  BY <1>2, BeginBase, CallRequest
<1> QED
  BY <1>1, <1>2, WriterBase, ModuleBase DEF Next

LEMMA BaseSafety == Spec => []BaseInv
  BY InitBase, NextBase, PTL DEF Spec

\* pe_mod_exit restores the power-on values and pe_mod_init finds them, whatever
\* the writers do in between.
THEOREM RegistersAreRestored == Spec => []RegistersFollowModule
<1>1. BaseInv => RegistersFollowModule
  BY DEF BaseInv
<1> QED
  BY <1>1, BaseSafety, PTL

-----------------------------------------------------------------------------
(* The cache, when the calls for one port do not overlap.                  *)
LEMMA InitExclusive == Init => ExclusiveInv
  BY DEF Init, ExclusiveInv, PortsAreExclusive, AtPort, ByteIsFresh, CacheMatchesDevice

LEMMA BeginExclusive ==
  ASSUME Exclusive, BaseInv, ExclusiveInv, NEW w \in Writer, NEW r \in Request, Begin(w, r)
  PROVE  ExclusiveInv'
<1> USE DEF BaseInv, ExclusiveInv, PortTypes, Begin
<1>1. PortsAreExclusive'
  BY DEF PortsAreExclusive, AtPort, Request
<1>2. ByteIsFresh'
  BY DEF ByteIsFresh
<1>3. CacheMatchesDevice'
  BY DEF CacheMatchesDevice, hist
<1> QED
  BY <1>1, <1>2, <1>3

\* A writer comes to a port only by loading its cache, when no other is there.
LEMMA StepExclusive ==
  ASSUME Exclusive, BaseInv, PortsAreExclusive, NEW w \in Writer, WriterStep(w)
  PROVE  PortsAreExclusive'
<1> USE DEF BaseInv, PortTypes, AtPort
<1>1. \A v \in Writer : v # w => pc'[v] = pc[v] /\ req'[v] = req[v]
  BY DEF WriterStep, CacheLoad, CacheStore, MessageLoad, mcp23s17_write
<1>2. CASE CacheLoad(w)
  <2>1. req' = req /\ \A v \in Writer : ~AtPort(v, req[w].port)
    BY <1>2 DEF CacheLoad
  <2> QED
    BY <1>1, <2>1 DEF PortsAreExclusive
<1>3. CASE CacheStore(w) \/ MessageLoad(w)
  <2>1. req' = req /\ pc[w] \in {"store", "arg"}
    BY <1>3 DEF CacheStore, MessageLoad
  <2> QED
    BY <1>1, <2>1 DEF PortsAreExclusive
<1>4. CASE mcp23s17_write(w)
  <2>1. pc'[w] \notin {"store", "arg", "xfer"}
    BY <1>4 DEF mcp23s17_write
  <2> QED
    BY <1>1, <2>1 DEF PortsAreExclusive
<1> QED
  BY <1>2, <1>3, <1>4 DEF WriterStep

LEMMA WriterExclusive ==
  ASSUME Exclusive, BaseInv, ExclusiveInv, NEW w \in Writer, WriterStep(w)
  PROVE  ExclusiveInv'
<1> USE DEF BaseInv, ExclusiveInv, PortTypes
<1>1. PortsAreExclusive'
  BY StepExclusive
<1>2. CASE CacheLoad(w) \/ MessageLoad(w)
  BY <1>1, <1>2 DEF CacheLoad, MessageLoad, ByteIsFresh, CacheMatchesDevice, hist
<1>3. CASE CacheStore(w)
  <2>1. \A p \in Port : p # req[w].port => cache'[p] = cache[p]
    BY <1>3 DEF CacheStore
  <2>2. \A v \in Writer : v # w /\ pc[v] \in {"store", "xfer"} => req[v].port # req[w].port
    BY <1>3 DEF CacheStore, PortsAreExclusive, AtPort, Request
  <2>3. ByteIsFresh'
    BY <1>3, <2>1, <2>2 DEF CacheStore, ByteIsFresh, Request
  <2>4. CacheMatchesDevice'
    BY <1>3, <2>1 DEF CacheStore, CacheMatchesDevice, hist
  <2> QED
    BY <1>1, <2>3, <2>4
<1>4. CASE mcp23s17_write(w)
  <2>1. ByteIsFresh'
    BY <1>4 DEF mcp23s17_write, ByteIsFresh
  <2>2. ASSUME NEW p \in Port \ stale',
               loaded', \A v \in Writer : (pc[v] = "idle" \/ req[v].port # p)'
        PROVE  cache'[p] = gpio'[p]
    <3>1. CASE p = req[w].port
      BY <1>4, <2>2, <3>1 DEF mcp23s17_write, ByteIsFresh
    <3>2. CASE p # req[w].port
      <4>1. p \notin stale /\ gpio'[p] = gpio[p] /\ cache' = cache /\ loaded
        BY <1>4, <2>2, <3>2 DEF mcp23s17_write
      <4>2. \A v \in Writer : pc[v] = "idle" \/ req[v].port # p
        BY <1>4, <2>2, <3>2 DEF mcp23s17_write
      <4> QED
        BY <4>1, <4>2 DEF CacheMatchesDevice
    <3> QED
      BY <3>1, <3>2
  <2> QED
    BY <1>1, <2>1, <2>2 DEF CacheMatchesDevice
<1> QED
  BY <1>2, <1>3, <1>4 DEF WriterStep

LEMMA ModuleExclusive ==
  ASSUME BaseInv, ExclusiveInv, pe_mod_init \/ pe_mod_exit
  PROVE  ExclusiveInv'
<1> USE DEF BaseInv, ExclusiveInv, UnloadedIsIdle, pe_mod_init, pe_mod_exit
<1>1. PortsAreExclusive' /\ ByteIsFresh'
  BY DEF PortsAreExclusive, AtPort, ByteIsFresh
<1>2. CacheMatchesDevice'
  BY DEF CacheMatchesDevice, RegistersFollowModule, PortTypes
<1> QED
  BY <1>1, <1>2

LEMMA NextExclusive ==
  ASSUME Exclusive, BaseInv, ExclusiveInv, [Next]_vars PROVE ExclusiveInv'
<1>1. CASE UNCHANGED vars
  BY <1>1 DEF vars, hist, ExclusiveInv, PortsAreExclusive, AtPort, ByteIsFresh,
              CacheMatchesDevice
<1>2. ASSUME NEW w \in Writer, NEW v \in Value,
             \/ gpio_all_set(w, v)
             \/ \E p \in Port, n \in Pin : gpio_set(w, p, n, v)
      PROVE  ExclusiveInv'
  BY <1>2, BeginExclusive, CallRequest
<1> QED
  BY <1>1, <1>2, WriterExclusive, ModuleExclusive DEF Next

LEMMA ExclusiveSafety ==
  ASSUME Exclusive PROVE Spec => [](BaseInv /\ ExclusiveInv)
<1>1. Init => BaseInv /\ ExclusiveInv
  BY InitBase, InitExclusive
<1>2. BaseInv /\ ExclusiveInv /\ [Next]_vars => (BaseInv /\ ExclusiveInv)'
  BY NextBase, NextExclusive
<1> QED
  BY <1>1, <1>2, PTL DEF Spec

\* portex_read_cached answers from the cache: as long as two calls of
\* portex_write_cached for one port do not overlap, it has what the device has,
\* unless a transfer failed.  A write may still fall between the two ports of
\* gpio_all.
THEOREM CacheIsCoherent ==
  ASSUME Exclusive PROVE Spec => []CacheMatchesDevice
<1>1. BaseInv /\ ExclusiveInv => CacheMatchesDevice
  BY DEF ExclusiveInv
<1> QED
  BY <1>1, ExclusiveSafety, PTL

-----------------------------------------------------------------------------
(* The driver implements PortBank.                                         *)
NoAsk == [ports |-> {}, mask |-> {}, high |-> FALSE]
AskOf(w) == [ports |-> Ahead(w), mask |-> req[w].mask, high |-> req[w].high]
ask == [w \in Writer |-> IF Ahead(w) = {} THEN NoAsk ELSE AskOf(w)]

\* The variables of PortBank, as PortEx has them.
bankVars == <<ask, cache, gpio>>

LEMMA IdleAsksNothing ==
  ASSUME BaseInv, NEW w \in Writer, pc[w] = "idle" PROVE Ahead(w) = {} /\ ask[w] = NoAsk
  BY DEF BaseInv, WriterInv, NoRequest, Ahead, ask

\* Only the writer that moves asks for something else.
LEMMA AskElsewhere ==
  ASSUME NEW w \in Writer,
         \A v \in Writer : v # w => pc'[v] = pc[v] /\ req'[v] = req[v]
  PROVE  ask' = [ask EXCEPT ![w] = ask'[w]]
<1>1. ASSUME NEW v \in Writer, v # w PROVE ask'[v] = ask[v]
  <2>1. Ahead(v)' = Ahead(v) /\ AskOf(v)' = AskOf(v)
    BY <1>1 DEF Ahead, AskOf
  <2> QED
    BY <2>1 DEF ask
<1> QED
  BY <1>1 DEF ask

LEMMA InitBank == Init => Bank!Init
<1> SUFFICES ASSUME Init PROVE Bank!Init
  OBVIOUS
<1>1. \A w \in Writer : Ahead(w) = {}
  BY DEF Init, Ahead, NoRequest
<1> QED
  BY <1>1 DEF Init, Bank!Init, Bank!None, Bank!AllLow

LEMMA BeginBank ==
  ASSUME BaseInv, NEW w \in Writer, NEW r \in Request, Begin(w, r),
         \/ ~r.all /\ \E n \in Pin : r.mask = {n}
         \/ r.all /\ r.port = FirstPort /\ r.mask = Pin
  PROVE  Bank!Next
<1> USE DEF BaseInv, PortTypes
<1>1. pc[w] = "idle" /\ pc'[w] = "load" /\ req'[w] = r
  BY DEF Begin
<1> DEFINE a == [ports |-> IF r.all THEN Port ELSE {r.port}, mask |-> r.mask, high |-> r.high]
<1>2. ask[w] = NoAsk
  BY <1>1, IdleAsksNothing
<1>3. ask'[w] = a
  <2>1. Ahead(w)' = IF r.all THEN Port ELSE {r.port}
    BY <1>1, OtherPort DEF Ahead, Request
  <2>2. Ahead(w)' # {}
    BY <2>1, OtherPort DEF Request
  <2> QED
    BY <1>1, <2>1, <2>2 DEF ask, AskOf
<1>4. ask' = [ask EXCEPT ![w] = a]
  BY <1>3, AskElsewhere DEF Begin
<1>5. a \in Bank!Ask
  BY DEF Request, Bank!Ask
<1>6. \/ \E p \in Port, n \in Pin : a.ports = {p} /\ a.mask = {n}
      \/ a.ports = Port /\ a.mask = Pin
  BY DEF Request
<1>7. cache' = cache /\ gpio' = gpio
  BY DEF Begin
<1> HIDE DEF a
<1>8. Bank!Call(w)
  BY <1>2, <1>4, <1>5, <1>6, <1>7 DEF Bank!Call, Bank!None, ask, AskOf, NoAsk
<1> QED
  BY <1>8 DEF Bank!Next

\* A write that takes its pins into the cache has asked for them.
LEMMA StoreBank ==
  ASSUME BaseInv, ByteIsFresh, NEW w \in Writer, CacheStore(w)
  PROVE  Bank!Next
<1> USE DEF BaseInv, PortTypes
<1>0. PICK p \in Port : p = req[w].port
  BY DEF Request
<1> DEFINE rest == Ahead(w) \ {p}
<1>1. /\ pc[w] = "store" /\ pc'[w] = "arg" /\ req' = req /\ gpio' = gpio
      /\ \A v \in Writer : v # w => pc'[v] = pc[v]
  BY DEF CacheStore
<1>2. p \in Ahead(w) /\ Ahead(w)' = rest
  BY <1>0, <1>1, OtherPort DEF Ahead, Request
<1>3. /\ ask[w] = AskOf(w)
      /\ ask[w].ports = Ahead(w) /\ ask[w].mask = req[w].mask /\ ask[w].high = req[w].high
  BY <1>2 DEF ask, AskOf
<1>4. cache' = [cache EXCEPT ![p] = IF ask[w].high THEN @ \cup ask[w].mask
                                                  ELSE @ \ ask[w].mask]
  <2>1. byte[w] = cache[p]
    BY <1>0, <1>1 DEF ByteIsFresh
  <2>2. cache' = [cache EXCEPT ![p] = IF req[w].high THEN byte[w] \cup req[w].mask
                                                    ELSE byte[w] \ req[w].mask]
    BY <1>0 DEF CacheStore
  <2> QED
    BY <1>3, <2>1, <2>2
<1> HIDE DEF rest
<1>5. ask'[w] = IF rest = {} THEN NoAsk ELSE [ask[w] EXCEPT !.ports = rest]
  <2>1. AskOf(w)' = [ports |-> rest, mask |-> req[w].mask, high |-> req[w].high]
    BY <1>1, <1>2 DEF AskOf
  <2>2. [AskOf(w) EXCEPT !.ports = rest]
          = [ports |-> rest, mask |-> req[w].mask, high |-> req[w].high]
    BY DEF AskOf
  <2> QED
    BY <1>2, <1>3, <2>1, <2>2 DEF ask
<1>6. ask' = [ask EXCEPT ![w] = IF rest = {} THEN NoAsk ELSE [ask[w] EXCEPT !.ports = rest]]
  BY <1>1, <1>5, AskElsewhere
<1>7. rest = ask[w].ports \ {p} /\ p \in ask[w].ports
  BY <1>2, <1>3 DEF rest
<1>8. Bank!Accept(w, p)
  BY <1>1, <1>4, <1>6, <1>7 DEF Bank!Accept, Bank!None, ask, AskOf, NoAsk
<1> QED
  BY <1>8 DEF Bank!Next

\* Moves of a writer that ask for nothing and change nothing ...
LEMMA QuietBank ==
  ASSUME NEW w \in Writer, Ahead(w)' = Ahead(w),
         (req'[w].mask = req[w].mask /\ req'[w].high = req[w].high) \/ Ahead(w) = {},
         \A v \in Writer : v # w => pc'[v] = pc[v] /\ req'[v] = req[v]
  PROVE  ask' = ask
<1>1. ask'[w] = ask[w]
  BY DEF ask, AskOf
<1> QED
  BY <1>1, AskElsewhere DEF ask

\* ... and the transfer, which brings the port to what was asked for.
LEMMA XferBank ==
  ASSUME BaseInv, ByteIsFresh, NEW w \in Writer, mcp23s17_write(w)
  PROVE  Bank!Next \/ UNCHANGED bankVars
<1> USE DEF BaseInv, PortTypes
<1>1. ask' = ask
  <2>0. pc[w] = "xfer" /\ \A v \in Writer : v # w => pc'[v] = pc[v] /\ req'[v] = req[v]
    BY DEF mcp23s17_write
  <2>1. CASE req[w].all /\ req[w].port = FirstPort
    <3>1. pc'[w] = "load" /\ req'[w] = [req[w] EXCEPT !.port = Other(FirstPort)]
      BY <2>1 DEF mcp23s17_write
    <3>2. Ahead(w) = {Other(FirstPort)}
      BY <2>0, <2>1 DEF Ahead
    <3>3. /\ req'[w].port = Other(FirstPort)
          /\ req'[w].mask = req[w].mask /\ req'[w].high = req[w].high
      BY <3>1 DEF Request
    <3>4. Ahead(w)' = {Other(FirstPort)}
      BY <3>1, <3>3, OtherPort DEF Ahead
    <3> QED
      BY <2>0, <3>2, <3>3, <3>4, QuietBank
  <2>2. CASE ~(req[w].all /\ req[w].port = FirstPort)
    <3>1. Ahead(w) = {}
      BY <2>0, <2>2 DEF Ahead
    <3>2. pc'[w] = "idle" /\ req'[w] = NoRequest
      BY <2>2 DEF mcp23s17_write
    <3>3. Ahead(w)' = {}
      BY <3>2 DEF Ahead, NoRequest
    <3> QED
      BY <2>0, <3>1, <3>3, QuietBank
  <2> QED
    BY <2>1, <2>2
<1>2. CASE gpio' = [gpio EXCEPT ![req[w].port] = byte[w]]
  <2>1. gpio' = [gpio EXCEPT ![req[w].port] = cache[req[w].port]] /\ cache' = cache
    BY <1>2 DEF mcp23s17_write, ByteIsFresh
  <2>2. Bank!Transfer(req[w].port)
    BY <1>1, <2>1 DEF Bank!Transfer, ask, AskOf, NoAsk
  <2> QED
    BY <2>2 DEF Bank!Next, Request
<1>3. CASE gpio' = gpio
  BY <1>1, <1>3 DEF bankVars, mcp23s17_write
<1> QED
  BY <1>2, <1>3 DEF mcp23s17_write

LEMMA ModuleBank ==
  ASSUME BaseInv, pe_mod_init \/ pe_mod_exit
  PROVE  Bank!Next
<1>1. \A w \in Writer : ask[w] = NoAsk
  BY IdleAsksNothing DEF BaseInv, UnloadedIsIdle, pe_mod_init, pe_mod_exit
<1>2. Bank!NoCall
  BY <1>1 DEF Bank!NoCall, Bank!None, ask, AskOf, NoAsk
<1>3. pc' = pc /\ req' = req
  BY DEF pe_mod_init, pe_mod_exit
<1>4. ask' = ask
  BY <1>3 DEF ask, AskOf, Ahead
<1>5. CASE pe_mod_init
  BY <1>2, <1>4, <1>5 DEF pe_mod_init, Bank!Load, Bank!AllLow, Bank!Next, ask, AskOf, NoAsk
<1>6. CASE pe_mod_exit
  <2>1. PICK lost \in SUBSET Port : gpio' = Sent(gpio, {}, lost) /\ cache' = cache
    BY <1>6 DEF pe_mod_exit
  <2>2. gpio' = [p \in Port |-> IF p \in Port \ lost THEN {} ELSE gpio[p]]
    BY <2>1 DEF Sent
  <2>3. Bank!Unload
    BY <1>2, <1>4, <2>1, <2>2 DEF Bank!Unload, ask, AskOf, NoAsk
  <2> QED
    BY <2>3 DEF Bank!Next
<1> QED
  BY <1>5, <1>6

LEMMA NextBank ==
  ASSUME BaseInv, ByteIsFresh, [Next]_vars
  PROVE  Bank!Next \/ UNCHANGED bankVars
<1>1. CASE UNCHANGED vars
  BY <1>1 DEF vars, bankVars, ask, AskOf, Ahead
<1>2. ASSUME NEW w \in Writer, NEW v \in Value,
             \/ gpio_all_set(w, v)
             \/ \E p \in Port, n \in Pin : gpio_set(w, p, n, v)
      PROVE  Bank!Next
  BY <1>2, BeginBank, CallRequest
<1>3. ASSUME NEW w \in Writer, CacheLoad(w) \/ MessageLoad(w)
      PROVE  UNCHANGED bankVars
  <2>1. Ahead(w)' = Ahead(w) /\ req' = req /\ cache' = cache /\ gpio' = gpio
    BY <1>3 DEF CacheLoad, MessageLoad, Ahead, BaseInv, PortTypes
  <2>2. \A v \in Writer : v # w => pc'[v] = pc[v]
    BY <1>3 DEF CacheLoad, MessageLoad, BaseInv, PortTypes
  <2> QED
    BY <2>1, <2>2, QuietBank DEF bankVars
<1> QED
  BY <1>1, <1>2, <1>3, StoreBank, XferBank, ModuleBank DEF Next, WriterStep

\* Writers whose calls for one port do not overlap, gpio_all, failing transfers, loading and
\* unloading together do what PortBank says: a write that always sends the whole
\* byte changes the pins it names and no other.
THEOREM DriverImplementsBank ==
  ASSUME Exclusive PROVE Spec => ImplementsPortBank
<1>1. BaseInv /\ ExclusiveInv /\ [Next]_vars => Bank!Next \/ UNCHANGED bankVars
  BY NextBank DEF ExclusiveInv
<1> QED
  BY <1>1, InitBank, ExclusiveSafety, PTL
  DEF Spec, ImplementsPortBank, Bank!Spec, bankVars, ask, AskOf, NoAsk
=============================================================================
