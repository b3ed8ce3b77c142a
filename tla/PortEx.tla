------------------------------- MODULE PortEx -------------------------------
(***************************************************************************)
(* The portex kernel module (src/portexpander): sysfs attributes that      *)
(* switch the pins of an MCP23S17 port expander over SPI, with a register  *)
(* cache.  portex_write_cached updates the cache with a load and a store   *)
(* and then sends the cached byte, without any lock; sysfs serialises only *)
(* the writes through one open file, so writers run concurrently, and      *)
(* whether two of these calls for one port overlap is up to their          *)
(* programs.  The expander keeps its registers while the module is         *)
(* unloaded.                                                               *)
(***************************************************************************)
EXTENDS Integers, FiniteSets

CONSTANTS
  Writer,    \* open sysfs files that are written to
  Port,      \* GPIO register banks (MCP23S08_REG_GPIO, MCP23S17_REG_GPIO)
  Pin,       \* pins of one port (8 in the device)
  FirstPort, \* the port gpio_all writes first
  Value,     \* the integers written into an attribute
  Exclusive, \* BOOLEAN: no two calls of portex_write_cached for one port overlap
  MaxFails   \* bound: how many SPI transfers fail

ASSUME PortAssumption ==
  /\ \E other \in Port : other # FirstPort /\ Port = {FirstPort, other}
  /\ Pin # {}
  /\ Value \subseteq Int
  /\ Exclusive \in BOOLEAN
  /\ MaxFails \in Nat

VARIABLES
  loaded,   \* is the module loaded?
  cache,    \* [Port -> SUBSET Pin]: cache_mcp23s17, the bits that are set
  gpio,     \* [Port -> SUBSET Pin]: the GPIO registers of the device
  iodir,    \* [Port -> {"in", "out"}]: its IODIR registers
  pc,       \* [Writer -> WriterPC]
  req,      \* [Writer -> Request]: the call of portex_write_cached
  byte,     \* [Writer -> SUBSET Pin]: the byte the writer loaded
  fails,    \* SPI transfers that have failed
  stale,    \* history: the ports whose last GPIO transfer failed
  dirFailed \* history: an IODIR transfer has failed

hist == <<fails, stale, dirFailed>>
vars == <<loaded, cache, gpio, iodir, pc, req, byte, hist>>

WriterPC == {"idle", "load", "store", "arg", "xfer"}
Request  == [port: Port, mask: SUBSET Pin, high: BOOLEAN, all: BOOLEAN]

Other(p) == CHOOSE q \in Port : q # p

\* The arguments of a writer that makes no call.
NoRequest == [port |-> FirstPort, mask |-> {}, high |-> FALSE, all |-> FALSE]

Init ==
  /\ loaded = FALSE
  /\ cache = [p \in Port |-> {}]
  /\ gpio  = [p \in Port |-> {}]
  /\ iodir = [p \in Port |-> "in"]
  /\ pc    = [w \in Writer |-> "idle"]
  /\ req   = [w \in Writer |-> NoRequest]
  /\ byte  = [w \in Writer |-> {}]
  /\ fails = 0 /\ stale = {} /\ dirFailed = FALSE

-----------------------------------------------------------------------------
\* The int read by sscanf is passed on as a u8.
High(value) == value % 256 # 0

\* Writer v is inside portex_write_cached for port p.
AtPort(v, p) == pc[v] \in {"store", "arg", "xfer"} /\ req[v].port = p

\* A write to an attribute begins.
Begin(w, r) ==
  /\ loaded
  /\ pc[w] = "idle"
  /\ pc'  = [pc EXCEPT ![w] = "load"]
  /\ req' = [req EXCEPT ![w] = r]
  /\ UNCHANGED <<loaded, cache, gpio, iodir, byte, hist>>

\* A write to gpioN.
gpio_set(w, p, n, value) ==
  Begin(w, [port |-> p, mask |-> {n}, high |-> High(value), all |-> FALSE])

\* A write to gpio_all: both ports, one after the other.
gpio_all_set(w, value) ==
  Begin(w, [port |-> FirstPort, mask |-> Pin, high |-> High(value),
            all |-> TRUE])

\* cache[reg] |= pin_mask, or &= ~pin_mask: load, then store.  Between the two
\* ports of gpio_all other writers may come to either.
CacheLoad(w) ==
  /\ pc[w] = "load"
  /\ Exclusive => \A v \in Writer : ~AtPort(v, req[w].port)
  /\ byte' = [byte EXCEPT ![w] = cache[req[w].port]]
  /\ pc'   = [pc EXCEPT ![w] = "store"]
  /\ UNCHANGED <<loaded, cache, gpio, iodir, req, hist>>

\* Mutants: clearing a pin clears the port; clearing has no effect.
CacheStoreClears(w) ==
  /\ pc[w] = "store"
  /\ cache' = [cache EXCEPT ![req[w].port] =
                 IF req[w].high THEN byte[w] \cup req[w].mask ELSE {}]
  /\ byte' = [byte EXCEPT ![w] = {}]
  /\ pc' = [pc EXCEPT ![w] = "arg"]
  /\ UNCHANGED <<loaded, gpio, iodir, req, hist>>

CacheStoreSets(w) ==
  /\ pc[w] = "store"
  /\ cache' = [cache EXCEPT ![req[w].port] = byte[w] \cup req[w].mask]
  /\ byte' = [byte EXCEPT ![w] = {}]
  /\ pc' = [pc EXCEPT ![w] = "arg"]
  /\ UNCHANGED <<loaded, gpio, iodir, req, hist>>

CacheStore(w) ==
  /\ pc[w] = "store"
  /\ cache' = [cache EXCEPT ![req[w].port] =
                 IF req[w].high THEN byte[w] \cup req[w].mask
                                ELSE byte[w] \ req[w].mask]
  /\ byte' = [byte EXCEPT ![w] = {}]
  /\ pc' = [pc EXCEPT ![w] = "arg"]
  /\ UNCHANGED <<loaded, gpio, iodir, req, hist>>

\* The cached byte is read again for the SPI message ...
MessageLoad(w) ==
  /\ pc[w] = "arg"
  /\ byte' = [byte EXCEPT ![w] = cache[req[w].port]]
  /\ pc'   = [pc EXCEPT ![w] = "xfer"]
  /\ UNCHANGED <<loaded, cache, gpio, iodir, req, hist>>

\* ... which is transferred later; a failure goes unnoticed.  gpio_all then
\* goes on with the other port.
mcp23s17_write(w) ==
  /\ pc[w] = "xfer"
  /\ \/ /\ gpio'  = [gpio EXCEPT ![req[w].port] = byte[w]]
        /\ stale' = stale \ {req[w].port}
        /\ UNCHANGED fails
     \/ /\ fails < MaxFails /\ fails' = fails + 1
        /\ stale' = stale \cup {req[w].port}
        /\ UNCHANGED gpio
  /\ IF req[w].all /\ req[w].port = FirstPort
       THEN /\ pc'  = [pc EXCEPT ![w] = "load"]
            /\ req' = [req EXCEPT ![w].port = Other(FirstPort)]
       ELSE /\ pc'  = [pc EXCEPT ![w] = "idle"]
            /\ req' = [req EXCEPT ![w] = NoRequest]
  /\ byte' = [byte EXCEPT ![w] = {}]
  /\ UNCHANGED <<loaded, cache, iodir, dirFailed>>

WriterStep(w) ==
  CacheLoad(w) \/ CacheStore(w) \/ MessageLoad(w) \/ mcp23s17_write(w)

-----------------------------------------------------------------------------
\* v is sent to every port; the transfers to lost fail.
Sent(reg, v, lost) == [p \in Port |-> IF p \in lost THEN reg[p] ELSE v]
Fail(n) == fails + n <= MaxFails /\ fails' = fails + n

\* Mutant: the cache is kept from before.
pe_mod_init_stale ==
  /\ ~loaded /\ loaded' = TRUE
  /\ iodir' = Sent(iodir, "out", {})
  /\ UNCHANGED <<cache, gpio, pc, req, byte, hist>>

\* pe_mod_init: the cache is fresh; mcp23s17_probe switches the pins to output
\* if both ports read as inputs.  Otherwise the probe fails, which does not
\* make spi_register_driver, and with it the loading of the module, fail.
pe_mod_init ==
  /\ ~loaded /\ loaded' = TRUE
  /\ cache' = [p \in Port |-> {}]
  /\ \/ /\ \A p \in Port : iodir[p] = "in"
        /\ \E lost \in SUBSET Port :
             /\ Fail(Cardinality(lost))
             /\ iodir' = Sent(iodir, "out", lost)
             /\ dirFailed' = (dirFailed \/ lost # {})
     \/ /\ \/ Fail(1)
           \/ (\E p \in Port : iodir[p] # "in") /\ UNCHANGED fails
        /\ dirFailed' = TRUE
        /\ UNCHANGED iodir
  /\ UNCHANGED <<gpio, pc, req, byte, stale>>

\* Mutant: the second port keeps its levels.
pe_mod_exit_half ==
  /\ loaded /\ loaded' = FALSE
  /\ \A w \in Writer : pc[w] = "idle"
  /\ gpio' = [gpio EXCEPT ![FirstPort] = {}]
  /\ iodir' = Sent(iodir, "in", {})
  /\ UNCHANGED <<cache, pc, req, byte, hist>>

\* pe_mod_exit: class_unregister waits for running writers, then the default
\* register values are restored.
pe_mod_exit ==
  /\ loaded /\ loaded' = FALSE
  /\ \A w \in Writer : pc[w] = "idle"
  /\ \E lost, dirLost \in SUBSET Port :
       /\ Fail(Cardinality(lost) + Cardinality(dirLost))
       /\ gpio'  = Sent(gpio, {}, lost) /\ stale' = lost
       /\ iodir' = Sent(iodir, "in", dirLost)
       /\ dirFailed' = (dirFailed \/ dirLost # {})
  /\ UNCHANGED <<cache, pc, req, byte>>

Next ==
  \/ pe_mod_init \/ pe_mod_exit
  \/ \E w \in Writer :
       \/ WriterStep(w)
       \/ \E v \in Value :
            \/ gpio_all_set(w, v)
            \/ \E p \in Port, n \in Pin : gpio_set(w, p, n, v)

Spec == Init /\ [][Next]_vars

\* A write that has begun is carried out, although others go to its port again
\* and again.
FairSpec == Spec /\ \A w \in Writer : SF_vars(WriterStep(w))

-----------------------------------------------------------------------------
\* "per device register cache": with no write on its way to a port, the cache,
\* which portex_read_cached answers from, has what the device has, unless the
\* last transfer failed; one that succeeds repairs all that failed before it.
CacheMatchesDevice ==
  \A p \in Port \ stale :
    loaded /\ (\A w \in Writer : pc[w] = "idle" \/ req[w].port # p)
      => cache[p] = gpio[p]

\* "restore default IODIR/GPIO values": an unloaded module leaves the device as
\* it was after power-on, so that the next probe finds it, and a loaded one
\* drives its pins.
RegistersFollowModule ==
  /\ ~loaded => \A p \in Port \ stale : gpio[p] = {}
  /\ ~dirFailed => \A p \in Port : iodir[p] = IF loaded THEN "out" ELSE "in"

\* The ports whose cache a writer has still to change.
Ahead(w) ==
  (IF pc[w] \in {"load", "store"} THEN {req[w].port} ELSE {})
    \cup (IF req[w].all /\ req[w].port = FirstPort THEN {Other(FirstPort)}
                                                   ELSE {})

\* The driver implements PortBank, failing transfers included: a write changes
\* its pins and disturbs no other, although it always sends the whole byte.
Bank == INSTANCE PortBank WITH
  ask <- [w \in Writer |->
            IF Ahead(w) = {} THEN [ports |-> {}, mask |-> {}, high |-> FALSE]
            ELSE [ports |-> Ahead(w), mask |-> req[w].mask,
                  high |-> req[w].high]],
  want <- cache,
  level <- gpio
ImplementsPortBank == Bank!Spec

\* Every write reaches the device: a pin that is asked for gets its level,
\* unless the transfer fails, however often others write in between.  The pins
\* of a port are interchangeable here, so that one of them stands for all.
SomePin == CHOOSE n \in Pin : TRUE

WriteTakesEffect ==
  \A p \in Port, h \in BOOLEAN :
    (\E w \in Writer : /\ pc[w] = "load" /\ req[w].port = p
                       /\ SomePin \in req[w].mask /\ req[w].high = h)
      ~> ((SomePin \in gpio[p]) = h \/ p \in stale)
=============================================================================
