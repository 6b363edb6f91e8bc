------------------------------- MODULE Modules -------------------------------
(***************************************************************************)
(* The modules a token contract is instantiated with (modules/mod.rs): a   *)
(* list of definitions, validated once and never changed, whose hooks the  *)
(* contract calls in order.  A definition is a record: an address list of  *)
(* either kind, a tax, a royalty or a receipt module.                      *)
(***************************************************************************)
EXTENDS AddressList, Fees

Whitelist(l) == [kind |-> "whitelist", contract |-> l]
Blacklist(l) == [kind |-> "blacklist", contract |-> l]
Tax(rate, receivers) == [kind |-> "tax", rate |-> rate, receivers |-> receivers]
Royalty(rate, receivers) == [kind |-> "royalty", rate |-> rate, receivers |-> receivers]
ReceiptModule == [kind |-> "receipt"]

IsList(m) == m.kind \in {"whitelist", "blacklist"}

\* is_unique, which compares the kinds of the definitions only.
IsUnique(modules, kind) ==
  Cardinality({i \in DOMAIN modules : modules[i].kind = kind}) <= 1

\* AddressListModule::validate: no other address list, of either kind.
ValidList(m, modules) ==
  /\ IsUnique(modules, m.kind)
  /\ \A i \in DOMAIN modules : IsList(modules[i]) => modules[i].kind = m.kind

\* Taxable::validate
ValidTax(m) ==
  /\ m.receivers # <<>>
  /\ IF m.rate.kind = "flat" THEN m.rate.coin.amount > 0 ELSE m.rate.pct \in 1..100

\* Royalty::validate: unlike a tax, a royalty may be of more than 100%.
ValidRoyalty(m) ==
  /\ m.receivers # <<>>
  /\ IF m.rate.kind = "flat" THEN m.rate.coin.amount > 0 ELSE m.rate.pct > 0

\* ReceiptModule::validate
ValidReceipt(m, modules) == IsUnique(modules, m.kind)

\* Module::validate, of the module that a definition stands for (as_module).
ValidModule(m, modules) ==
  CASE IsList(m)          -> ValidList(m, modules)
    [] m.kind = "tax"     -> ValidTax(m)
    [] m.kind = "royalty" -> ValidRoyalty(m)
    [] m.kind = "receipt" -> ValidReceipt(m, modules)

\* Modules::validate, which store_modules runs before it saves the list.
ValidModules(modules) == \A i \in DOMAIN modules : ValidModule(modules[i], modules)

\* The address list module among the definitions, as AddressList has it.
ListModuleOf(modules) ==
  IF \E i \in DOMAIN modules : IsList(modules[i])
  THEN LET m == modules[CHOOSE i \in DOMAIN modules : IsList(modules[i])]
       IN  [contract |-> m.contract, inclusive |-> m.kind = "whitelist"]
  ELSE NoList

\* Modules::on_execute: of all modules only the address list objects.
ModulesAllow(modules, sender) == OnExecute(ListModuleOf(modules), sender)

\* get_receipt_module
HasReceiptModule(modules) == \E i \in DOMAIN modules : modules[i].kind = "receipt"
==============================================================================
