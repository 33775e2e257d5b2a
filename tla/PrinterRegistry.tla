--------------------------- MODULE PrinterRegistry ---------------------------
(***************************************************************************)
(* What the registration file promises its readers: a set of printer       *)
(* tables, one per name, that grows by whole registrations and never loses *)
(* or changes one (configuration.rs).                                      *)
(***************************************************************************)
CONSTANTS
  Name,        \* printer names
  Connection,  \* what a table may say besides its name
  Registrable  \* the connections that add::Request::new accepts

ASSUME RegistrableAssumption == Registrable \subseteq Connection

VARIABLE registry

Table == [name : Name, connection : Connection]

NamesOf(tables) == {table.name : table \in tables}
OnePerName(tables) ==
  \A one, other \in tables : one.name = other.name => one = other

RegistryInit == registry \in SUBSET Table /\ OnePerName(registry)

Register(name, connection) ==
  /\ name \notin NamesOf(registry)
  /\ registry' = registry \union {[name |-> name, connection |-> connection]}

RegistryNext == \E name \in Name, connection \in Registrable : Register(name, connection)

RegistrySpec == RegistryInit /\ [][RegistryNext]_registry
=============================================================================
