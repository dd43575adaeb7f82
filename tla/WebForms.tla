------------------------------ MODULE WebForms ------------------------------
(***************************************************************************)
(* The forms of the web application (apps/web/src/features): for each      *)
(* command what its form does with the answer, which of the lists on the   *)
(* page are read again, and what the command changes on the server.  The   *)
(* fields of a form and how they are laid out are left out.                *)
(*                                                                         *)
(* A form is a record:                                                     *)
(*   kind    "dialog" is reset when it is opened, "inline" is never closed *)
(*   then    after success it closes, closes and reloads, goes to another  *)
(*           page, or stays                                                *)
(*   repeat  what the server makes of the same input sent again: "adds"    *)
(*           does it again, "same" answers what it did, "once" refuses    *)
(*   of      whose input it is: the opening's, or the record's it is for   *)
(*   reload  the lists its reload button reads                             *)
(*   reloaded  what the reload does to it: "reset", or "close" as well     *)
(***************************************************************************)
EXTENDS TLC

Dialog(then, repeat, of, reload) ==
  [kind |-> "dialog", then |-> then, repeat |-> repeat, of |-> of,
   reload |-> reload, reloaded |-> "reset"]

Inline(repeat, of, reload) ==
  [Dialog("stay", repeat, of, reload) EXCEPT !.kind = "inline"]

(* A change of who has access: acknowledged first, closed by its reload.   *)
ImpactDialog(then, repeat, reload) ==
  [Dialog(then, repeat, "record", reload) EXCEPT !.reloaded = "close"]

-----------------------------------------------------------------------------
(* Inventory *)

InventoryLists == {"warehouses", "items", "balances", "reservations", "transfers", "movements"}

CreateWarehouseDialog == Dialog("reload", "once", "opening", InventoryLists)
CreateItemDialog == Dialog("reload", "once", "opening", InventoryLists)
ReceiveStockDialog == Dialog("reload", "adds", "opening", InventoryLists)
AdjustStockDialog == Dialog("reload", "same", "opening", InventoryLists)
ReserveStockDialog == Dialog("reload", "same", "opening", InventoryLists)
CreateTransferDialog == Dialog("reload", "adds", "opening", InventoryLists)
ReservationCommand == Dialog("close", "same", "record", InventoryLists)
TransferCommand == Dialog("close", "same", "record", InventoryLists)

InventoryForms ==
  [createWarehouse |-> CreateWarehouseDialog, createItem |-> CreateItemDialog,
   receiveStock |-> ReceiveStockDialog, adjustStock |-> AdjustStockDialog,
   reserveStock |-> ReserveStockDialog, createTransfer |-> CreateTransferDialog,
   releaseReservation |-> ReservationCommand, fulfillReservation |-> ReservationCommand,
   confirmTransfer |-> TransferCommand, completeTransfer |-> TransferCommand]

Stock == {"balances", "reservations", "movements"}

(* Mutant: fulfilling is forgotten to take stock from the balance. *)
FulfilledElsewhere ==
  [createWarehouse |-> {"warehouses"}, createItem |-> {"items"},
   receiveStock |-> Stock, adjustStock |-> Stock, reserveStock |-> Stock,
   createTransfer |-> {"transfers"}, releaseReservation |-> Stock,
   fulfillReservation |-> {"reservations"},
   confirmTransfer |-> {"transfers", "balances", "movements"},
   completeTransfer |-> {"transfers"} \cup Stock]

InventoryRefetches ==
  [createWarehouse |-> {"warehouses"}, createItem |-> {"items"},
   receiveStock |-> Stock, adjustStock |-> Stock, reserveStock |-> Stock,
   createTransfer |-> {"transfers"}, releaseReservation |-> Stock, fulfillReservation |-> Stock,
   confirmTransfer |-> {"transfers", "balances", "movements"},
   completeTransfer |-> {"transfers"} \cup Stock]

MasterDataChanges == [createWarehouse |-> {"warehouses"}, createItem |-> {"items"}]

StockChanges ==
  [adjustStock |-> {"balances", "movements"}, receiveStock |-> {"balances", "movements"},
   reserveStock |-> Stock, releaseReservation |-> Stock, fulfillReservation |-> Stock]

TransferChanges ==
  [createTransfer |-> {"transfers"},
   confirmTransfer |-> {"transfers", "balances", "movements"},
   completeTransfer |-> {"transfers", "balances", "movements"}]

InventoryChanges == MasterDataChanges @@ StockChanges @@ TransferChanges

(* Commands whose answer must show the record in the status they asked for,*)
(* or their outcome is taken to be unknown: it may have moved on since.    *)
InventoryExpects == {"reserveStock", "releaseReservation", "fulfillReservation",
                     "createTransfer", "confirmTransfer", "completeTransfer"}

-----------------------------------------------------------------------------
(* Sales *)

SalesLists == {"customers", "quotations", "orders", "order"}

CreateCustomerDialog == Dialog("reload", "once", "opening", {"customers"})
CreateQuotationDialog == Dialog("navigate", "adds", "opening", {"quotations"})
CreateOrderDialog == Dialog("navigate", "adds", "opening", {"orders"})
ConfirmOrderDialog == Dialog("reload", "same", "record", SalesLists)
CancelOrderDialog == Dialog("reload", "same", "record", SalesLists)

SalesForms ==
  [createCustomer |-> CreateCustomerDialog, createQuotation |-> CreateQuotationDialog,
   createOrder |-> CreateOrderDialog, confirmOrder |-> ConfirmOrderDialog,
   cancelOrder |-> CancelOrderDialog]

SalesRefetches ==
  [createCustomer |-> {"customers"}, createQuotation |-> {"quotations", "customers"},
   createOrder |-> {"orders", "quotations"},
   confirmOrder |-> {"orders", "order"}, cancelOrder |-> {"orders", "order"}]

SalesChanges ==
  [createCustomer |-> {"customers"}, createQuotation |-> {"quotations"},
   createOrder |-> {"orders"}, confirmOrder |-> {"orders", "order"},
   cancelOrder |-> {"orders", "order"}]

SalesExpects == {"createQuotation", "createOrder", "confirmOrder", "cancelOrder"}

-----------------------------------------------------------------------------
(* Procurement *)

ProcurementLists == {"supplierAccounts", "orders", "order", "receipts"}
PurchaseLists == {"order", "receipts"}

CreateSupplierAccountDialog == Dialog("reload", "once", "opening", {"supplierAccounts"})
CreatePurchaseOrderDialog == Dialog("navigate", "adds", "opening", {"orders"})
ConfirmPurchaseOrderDialog == Dialog("close", "same", "opening", PurchaseLists)
CancelPurchaseOrderDialog == Dialog("close", "same", "record", PurchaseLists)
ReceivePurchaseOrderDialog == Dialog("close", "same", "opening", PurchaseLists)

ProcurementForms ==
  [createSupplierAccount |-> CreateSupplierAccountDialog,
   createPurchaseOrder |-> CreatePurchaseOrderDialog,
   confirmPurchaseOrder |-> ConfirmPurchaseOrderDialog,
   cancelPurchaseOrder |-> CancelPurchaseOrderDialog,
   receivePurchaseOrder |-> ReceivePurchaseOrderDialog]

ProcurementRefetches ==
  [createSupplierAccount |-> {"supplierAccounts"},
   createPurchaseOrder |-> {"orders", "supplierAccounts"},
   confirmPurchaseOrder |-> {"orders", "order"}, cancelPurchaseOrder |-> {"orders", "order"},
   receivePurchaseOrder |-> {"receipts", "order", "orders"}]

ProcurementChanges ==
  [createSupplierAccount |-> {"supplierAccounts"}, createPurchaseOrder |-> {"orders"},
   confirmPurchaseOrder |-> {"orders", "order"}, cancelPurchaseOrder |-> {"orders", "order"},
   receivePurchaseOrder |-> {"receipts", "order", "orders"}]

ProcurementExpects == {"createPurchaseOrder", "confirmPurchaseOrder", "cancelPurchaseOrder"}

-----------------------------------------------------------------------------
(* Accounting *)

AccountingLists == {"configurations", "accounts", "periods", "profiles", "journals"}

ConfigureLegalEntityDialog == Dialog("reload", "once", "opening", AccountingLists)
CreateAccountDialog == Dialog("reload", "once", "opening", AccountingLists)
ConfigureRevenuePostingDialog == Dialog("reload", "once", "opening", AccountingLists)
OpenPeriodDialog == Dialog("reload", "once", "opening", AccountingLists)
ClosePeriodDialog == Dialog("reload", "same", "record", AccountingLists)
PostJournalDialog == Dialog("reload", "same", "opening", AccountingLists)

AccountingForms ==
  [configureLegalEntity |-> ConfigureLegalEntityDialog, createAccount |-> CreateAccountDialog,
   configureRevenuePosting |-> ConfigureRevenuePostingDialog,
   openPeriod |-> OpenPeriodDialog, closePeriod |-> ClosePeriodDialog,
   postJournal |-> PostJournalDialog]

AccountingRefetches == [m \in DOMAIN AccountingForms |-> AccountingLists]

LedgerChanges ==
  [configureLegalEntity |-> {"configurations"}, createAccount |-> {"accounts"},
   postJournal |-> {"journals"}, configureRevenuePosting |-> {"profiles"}]

PeriodChanges == [openPeriod |-> {"periods"}, closePeriod |-> {"periods"}]

AccountingChanges == LedgerChanges @@ PeriodChanges

AccountingExpects == {"openPeriod", "closePeriod", "postJournal"}

-----------------------------------------------------------------------------
(* Parties: one dialog, and commands that stand on the page of a party.    *)

PartyLists == {"parties", "party", "paths"}
PartyDetail == {"party", "parties"}

CreatePartyDialog == Dialog("navigate", "adds", "opening", {"parties"})
CreateLegalEntityCommand == Inline("once", "record", PartyDetail)
AssignRoleCommand == Inline("once", "opening", PartyDetail)
AttachIdentifierCommand == Inline("once", "opening", PartyDetail)
CreateRelationshipCommand == Inline("once", "opening", PartyDetail)
CreateBranchCommand == Inline("once", "opening", PartyDetail)
CreateRepresentationCommand == Inline("once", "opening", PartyDetail)
RepresentationTable == Inline("same", "opening", {"party"})

PartyForms ==
  [createParty |-> CreatePartyDialog, createLegalEntity |-> CreateLegalEntityCommand,
   assignRole |-> AssignRoleCommand, attachIdentifier |-> AttachIdentifierCommand,
   createRelationship |-> CreateRelationshipCommand, createBranch |-> CreateBranchCommand,
   createRepresentation |-> CreateRepresentationCommand,
   setRepresentationActive |-> RepresentationTable]

PartyRefetches ==
  [m \in DOMAIN PartyForms |->
     CASE m = "createParty" -> {"parties"}
       [] m = "createLegalEntity" -> {"parties", "party"}
       [] m = "createRelationship" -> {"party", "paths"}
       [] OTHER -> {"party"}]

PartyChanges == [PartyRefetches EXCEPT !["createLegalEntity"] = {"party"}]

-----------------------------------------------------------------------------
(* Access *)

AccessLists == {"memberships", "membership", "grants", "definitions"}

AddMembershipDialog ==
  [Dialog("navigate", "once", "opening", {"memberships"}) EXCEPT !.reloaded = "close"]
SuspendMembership == ImpactDialog("stay", "same", {"membership", "grants"})
RemoveMembership == ImpactDialog("navigate", "once", {"memberships"})
GrantCapabilityDialog ==
  [Dialog("close", "once", "opening", {"grants", "membership"}) EXCEPT !.reloaded = "close"]

AccessForms ==
  [addMembership |-> AddMembershipDialog, suspendMembership |-> SuspendMembership,
   activateMembership |-> SuspendMembership, removeMembership |-> RemoveMembership,
   grantCapability |-> GrantCapabilityDialog]

AccessRefetches == [m \in DOMAIN AccessForms |-> AccessLists]

MembershipChanges ==
  [m \in {"addMembership", "suspendMembership", "activateMembership", "removeMembership"} |->
     {"memberships", "membership"}]

GrantChanges == [grantCapability |-> {"grants"}]

AccessChanges == MembershipChanges @@ GrantChanges

AccessExpects == {"suspendMembership", "activateMembership"}

-----------------------------------------------------------------------------
(* User accounts: the collection and an account are pages of their own.    *)

AccountLists == {"accounts", "account"}

CreateUserAccountDialog == Dialog("close", "once", "opening", {"accounts"})
EmailEditor == [Dialog("close", "same", "opening", {"account"}) EXCEPT !.reloaded = "close"]

AccountRefetches == [m \in {"createUserAccount", "changeEmail"} |-> AccountLists]
AccountChanges ==
  [createUserAccount |-> {"accounts"}, changeEmail |-> {"accounts", "account"}]

-----------------------------------------------------------------------------
(* Process studio *)

ProcessLists == {"catalog", "runtime", "workflowRuns", "inbox", "controls"}

RuntimeActionDialog == Dialog("reload", "same", "opening", ProcessLists)

ProcessForms == [operateRuntime |-> RuntimeActionDialog]
ProcessRefetches == [m \in DOMAIN ProcessForms |-> ProcessLists]
ProcessChanges == [operateRuntime |-> {"runtime", "inbox", "controls"}]

-----------------------------------------------------------------------------
(* The pages, each with a route of its own (app/app.tsx). *)

Feature(lists, forms, refetches, changes, expects) ==
  [lists |-> lists, forms |-> forms, refetches |-> refetches, changes |-> changes,
   expects |-> expects]

Features ==
  [inventory |-> Feature(InventoryLists, InventoryForms, InventoryRefetches, InventoryChanges,
                         InventoryExpects),
   sales |-> Feature(SalesLists, SalesForms, SalesRefetches, SalesChanges, SalesExpects),
   procurement |-> Feature(ProcurementLists, ProcurementForms, ProcurementRefetches,
                           ProcurementChanges, ProcurementExpects),
   accounting |-> Feature(AccountingLists, AccountingForms, AccountingRefetches,
                          AccountingChanges, AccountingExpects),
   parties |-> Feature(PartyLists, PartyForms, PartyRefetches, PartyChanges, {}),
   access |-> Feature(AccessLists, AccessForms, AccessRefetches, AccessChanges,
                      AccessExpects),
   accounts |-> Feature({"accounts"}, [createUserAccount |-> CreateUserAccountDialog],
                        AccountRefetches, AccountChanges, {}),
   account |-> Feature({"account"}, [changeEmail |-> EmailEditor],
                       AccountRefetches, AccountChanges, {}),
   processes |-> Feature(ProcessLists, ProcessForms, ProcessRefetches, ProcessChanges, {})]
=============================================================================
