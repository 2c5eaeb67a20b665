----------------------------- MODULE CacheKeys -----------------------------
(***************************************************************************)
(* What the frontend caches and what it drops from the cache               *)
(* (src/frontend/src): which part of the database each cached query shows, *)
(* which part each mutation changes, and the query keys the mutation's     *)
(* handlers invalidate.                                                    *)
(*                                                                         *)
(* A table stands for columns of one kind of row that are written and      *)
(* shown together: the names of accounts, categories and budgets, which    *)
(* are joined into other rows' answers, are tables of their own, and so    *)
(* are the category columns ("links") that a merge or a deletion rewrites, *)
(* the descriptions of transactions ("texts") and the plans' references to *)
(* what was booked for them ("bookings").  A query key is the              *)
(* tuple the code writes, with "b" for a budget's id, "p" for a period's,  *)
(* and so on; a handler's key covers the keys it is a prefix of.           *)
(***************************************************************************)
EXTENDS Naturals, Sequences, SequencesExt

-----------------------------------------------------------------------------
(* The columns of the rows the API serves (types/index.ts).                *)

AccountRow     == {"accounts", "accountNames", "openings"}
BudgetRow      == {"budgets", "budgetNames"}
PeriodRow      == {"periods", "periodSet"}
CategoryRow    == {"categories", "categoryNames"}
TransactionRow == {"transactions", "adjustments", "texts", "links", "accountNames",
                   "categoryNames"}
ItemRow        == {"items", "itemLinks", "categoryNames"}
AttachmentRow  == {"attachments", "scans"}
TransferRow    == {"transfers", "accountNames"}
PlannedRow     == {"plans", "bookings", "planLinks", "accountNames", "categoryNames"}
RuleRow        == {"rules", "ruleLinks", "plans", "accountNames", "categoryNames"}
BookmarkRow    == {"bookmarks", "budgetNames"}
SummaryRow     == {"categoryBudgets", "categoryNames", "transactions", "links",
                   "items", "itemLinks", "periods", "budgetNames"}
HistoryRow     == {"categoryBudgets", "transactions", "links", "items", "itemLinks",
                   "periods", "periodSet", "budgetNames"}
BalanceRow     == AccountRow \cup {"transactions", "adjustments", "transfers"}
MemberRow      == {"members", "users"}
WorkspaceRow   == {"workspaces"}

-----------------------------------------------------------------------------
(* The endpoints (api/client.ts): what a GET shows, what a write changes.  *)

CurrenciesApi ==
  [catalog      |-> {"catalog"},
   enabled      |-> {"currencies"},
   enable       |-> {"currencies"},
   createCustom |-> {"currencies", "catalog"},
   disable      |-> {"currencies", "catalog"},
   reorder      |-> {"currencies"}]

AccountsApi ==
  [list       |-> AccountRow,
   save       |-> AccountRow,                  \* create, update
   delete     |-> {"accounts"},                \* only without records
   setArchive |-> {"accounts"},
   balance    |-> {"openings", "transactions", "adjustments", "transfers"}]

\* Deleting a category clears it in the rows that name it; deleting a budget
\* deletes its categories, periods and bookmarks, and the default of its
\* workspace.
BudgetsApi ==
  LET categoryLoss == CategoryRow \cup {"links", "itemLinks", "planLinks", "ruleLinks",
                                        "categoryBudgets"}
  IN [list               |-> BudgetRow \cup {"budgetSet"},
      get                |-> BudgetRow,
      create             |-> {"budgetSet"},
      update             |-> BudgetRow \cup {"cadence"},
      delete             |-> BudgetRow \cup {"budgetSet"} \cup PeriodRow \cup categoryLoss
                               \cup {"bookmarks", "workspaces"},
      setArchive         |-> {"budgetSet"},
      listPeriods        |-> PeriodRow,
      currentPeriod      |-> {"cadence"},      \* never a custom period
      derivePeriod       |-> {"periodSet"},    \* currentPeriod of another date
      savePeriod         |-> PeriodRow,        \* createPeriod, updatePeriod
      deletePeriod       |-> PeriodRow \cup {"categoryBudgets"},
      listCategories     |-> CategoryRow,      \* and listAllCategories
      createCategory     |-> {"categories"},
      setCategoryArchive |-> {"categories"},
      mergeCategory      |-> categoryLoss,
      deleteCategory     |-> categoryLoss,
      setCategoryBudget  |-> {"categoryBudgets"}]

BookmarksApi ==
  [list |-> BookmarkRow,
   save |-> {"bookmarks"}]       \* create, update, setVisibility, move, delete

\* Deleting a transaction clears the link of the plan that booked it.
TransactionsApi ==
  [getAll         |-> TransactionRow,
   getTotals      |-> TransactionRow \cup ItemRow,
   descriptions   |-> {"transactions", "texts"},
   adjust         |-> {"adjustments", "texts"},           \* create, of that type
   save           |-> {"transactions", "texts", "links", "items"},    \* or update
   delete         |-> {"transactions", "texts", "links", "bookings"},
   listItems      |-> ItemRow,
   replaceItems   |-> {"items", "itemLinks"},
   listFiles      |-> AttachmentRow,
   upload         |-> {"attachments"},
   deleteFile     |-> {"attachments", "files"},
   download       |-> {"files"},
   extract        |-> {"scans"},
   extractionConfig |-> {"parser"}]

TransfersApi ==
  [getAll |-> TransferRow,
   get    |-> TransferRow,
   save   |-> {"transfers"},                   \* create, update
   delete |-> {"transfers"}]

ReportsApi ==
  [budgetSummary   |-> SummaryRow,
   budgetHistory   |-> HistoryRow,
   currentBalances |-> BalanceRow]

\* The answer to execute precedes the Celery task that books the transaction.
PlannedTransactionsApi ==
  [getAll    |-> PlannedRow,
   getTotals |-> PlannedRow,
   save      |-> {"plans", "planLinks"},       \* create, update
   delete    |-> {"plans"},
   execute   |-> {"plans"},
   booking   |-> {"plans", "bookings", "transactions", "texts", "links"}]

RecurringTransactionsApi ==
  [getAll |-> RuleRow,
   save   |-> {"rules", "ruleLinks", "plans"}, \* both generate plans
   delete |-> {"rules", "plans"}]

AuthApi ==
  [getPreferences    |-> {"preferences"},
   updatePreferences |-> {"preferences"},
   updateProfile     |-> {"users"},
   checkDeletion     |-> {"members", "transactions", "plans"},
   resetAccount      |-> {"workspaces", "members"},
   importLegacy      |-> {"workspaces"},
   get2FAStatus      |-> {"twoFactor"},
   verifySetup2FA    |-> {"twoFactor"},
   disable2FA        |-> {"twoFactor"},
   regenerateCodes   |-> {"twoFactor"}]

WorkspacesApi ==
  [list             |-> WorkspaceRow,
   getCurrent       |-> WorkspaceRow,
   update           |-> {"workspaces"},
   setDefaultBudget |-> {"workspaces"},
   create           |-> WorkspaceRow \cup {"members"},
   delete           |-> WorkspaceRow \cup {"members"}]

WorkspaceMembersApi ==
  [list          |-> MemberRow,
   add           |-> MemberRow,
   updateRole    |-> {"members"},
   remove        |-> {"members"},
   reset2FA      |-> {}]                       \* another user's

WorkspaceSettingsApi ==
  [get    |-> {"settings"},
   update |-> {"settings"}]

-----------------------------------------------------------------------------
(* The cached queries.                                                     *)

\* looks: what a look at the tab refetches: any entry ("always"), one that is
\* stale ("stale"), none ("never").  scoped: the server answers for the user's
\* current workspace, which the key does not name.  polled: it has a
\* refetchInterval.
Query(key, reads, looks, scoped) ==
  [key |-> key, reads |-> reads, looks |-> looks, scoped |-> scoped, polled |-> FALSE]

useAccounts            == Query(<<"accounts", "f">>, AccountsApi.list, "always", TRUE)
useEnabledCurrencies   == Query(<<"enabled-currencies">>, CurrenciesApi.enabled, "always", TRUE)
useBudgets             == Query(<<"budgets", "f">>, BudgetsApi.list, "always", TRUE)
useWorkspaceCategories == Query(<<"workspace-categories", "f">>, BudgetsApi.listCategories, "always", TRUE)
useExtractionConfig    == [Query(<<"extraction-config">>, TransactionsApi.extractionConfig, "stale", FALSE)
                             EXCEPT !.polled = TRUE]
useBookmarks           == Query(<<"bookmarks">>, BookmarksApi.list, "always", TRUE)
useWorkspaceSettings   == Query(<<"workspace-settings">>, WorkspaceSettingsApi.get, "stale", TRUE)
useAttachments         == Query(<<"transaction-attachments", "t">>, TransactionsApi.listFiles, "stale", FALSE)
useAttachmentBlob      == Query(<<"attachment-blob", "t", "a">>, TransactionsApi.download, "never", FALSE)
preferencesQuery       == Query(<<"user-preferences">>, AuthApi.getPreferences, "stale", FALSE)
workspaceQuery         == Query(<<"workspace-current">>, WorkspacesApi.getCurrent, "stale", TRUE)
workspacesQuery        == Query(<<"workspaces">>, WorkspacesApi.list, "stale", FALSE)
membersQuery           == Query(<<"workspace-members", "w">>, WorkspaceMembersApi.list, "stale", FALSE)
transactionsQuery      == Query(<<"transactions", "page">>, TransactionsApi.getAll, "stale", TRUE)
totalsQuery            == Query(<<"transactions", "totals">>, TransactionsApi.getTotals, "stale", TRUE)
recentQuery            == Query(<<"transactions", "recent">>, TransactionsApi.getAll, "stale", TRUE)
descriptionsQuery      == Query(<<"transactions", "frequent-descriptions">>, TransactionsApi.descriptions, "stale", TRUE)
countQuery             == Query(<<"transactions", "count", "c">>, TransactionsApi.getAll, "stale", TRUE)
itemsQuery             == Query(<<"transaction-items", "t">>, TransactionsApi.listItems, "stale", FALSE)
plannedQuery           == Query(<<"planned", "page">>, PlannedTransactionsApi.getAll, "stale", TRUE)
plannedTotalsQuery     == Query(<<"planned", "totals">>, PlannedTransactionsApi.getTotals, "stale", TRUE)
recurringQuery         == Query(<<"recurring">>, RecurringTransactionsApi.getAll, "stale", TRUE)
transfersQuery         == Query(<<"transfers", "page">>, TransfersApi.getAll, "stale", TRUE)
transferQuery          == Query(<<"transfers", "detail", "x">>, TransfersApi.get, "stale", FALSE)
accountsPageQuery      == Query(<<"accounts", "t">>, AccountsApi.list, "stale", TRUE)
balancesQuery          == Query(<<"current-balances", "f">>, ReportsApi.currentBalances, "stale", TRUE)
balanceQuery           == Query(<<"account-balance", "x">>, AccountsApi.balance, "stale", FALSE)
budgetQuery            == Query(<<"budget", "b">>, BudgetsApi.get, "stale", FALSE)
periodsQuery           == Query(<<"periods", "b">>, BudgetsApi.listPeriods, "always", FALSE)
currentPeriodQuery     == Query(<<"current-period", "b">>, BudgetsApi.currentPeriod, "stale", FALSE)
categoriesQuery        == Query(<<"categories", "b">>, BudgetsApi.listCategories, "stale", FALSE)
allCategoriesQuery     == Query(<<"categories", "b", "all">>, BudgetsApi.listCategories, "stale", FALSE)
summaryQuery           == Query(<<"budget-summary", "b", "p">>, ReportsApi.budgetSummary, "stale", FALSE)
historyQuery           == Query(<<"budget-history", "b", "p">>, ReportsApi.budgetHistory, "stale", FALSE)
catalogQuery           == Query(<<"currency-catalog">>, CurrenciesApi.catalog, "stale", TRUE)
twoFactorQuery         == Query(<<"2fa-status">>, AuthApi.get2FAStatus, "stale", FALSE)
deleteCheckQuery       == Query(<<"account-delete-check">>, AuthApi.checkDeletion, "stale", FALSE)
paletteTransactions    == Query(<<"palette-transactions", "s">>, TransactionsApi.getAll, "stale", TRUE)
palettePlanned         == Query(<<"palette-planned", "s">>, PlannedTransactionsApi.getAll, "stale", TRUE)

-----------------------------------------------------------------------------
(* The mutations: what they change, and what their handlers do to the      *)
(* cache when the answer arrives.                                          *)

\* late: what the server changes after it has answered.  settles: the handler
\* runs on failure too.  optimistic: the handler wrote the cache beforehand.
\* switches: the user's current workspace is another one afterwards.
Mutation(writes, touches) ==
  [writes |-> writes, late |-> {}, touches |-> touches,
   settles |-> FALSE, optimistic |-> FALSE, switches |-> FALSE]

Invalidate(keys) == {[how |-> "invalidate", key |-> k] : k \in keys}
Drop(keys)       == {[how |-> "remove", key |-> k] : k \in keys}
SetData(keys)    == {[how |-> "set", key |-> k] : k \in keys}

saveTransaction ==
  Mutation(TransactionsApi.save,
           Invalidate({<<"transactions">>, <<"current-balances">>, <<"account-balance">>}))

deleteTransaction ==
  Mutation(TransactionsApi.delete,
           Invalidate({<<"transactions">>, <<"current-balances">>}))

executePlanned ==
  [Mutation(PlannedTransactionsApi.execute,
            Invalidate({<<"planned">>, <<"transactions">>, <<"current-balances">>}))
   EXCEPT !.late = PlannedTransactionsApi.booking]

executeAdjusted ==
  [Mutation(PlannedTransactionsApi.execute,
            Invalidate({<<"planned">>, <<"transactions">>, <<"current-balances">>}))
   EXCEPT !.late = PlannedTransactionsApi.booking]

savePlanned   == Mutation(PlannedTransactionsApi.save, Invalidate({<<"planned">>}))
cancelPlanned == Mutation(PlannedTransactionsApi.save, Invalidate({<<"planned">>}))
deletePlanned == Mutation(PlannedTransactionsApi.delete, Invalidate({<<"planned">>}))

saveRule   == Mutation(RecurringTransactionsApi.save, Invalidate({<<"recurring">>, <<"planned">>}))
toggleRule == Mutation(RecurringTransactionsApi.save, Invalidate({<<"recurring">>}))
deleteRule == Mutation(RecurringTransactionsApi.delete, Invalidate({<<"recurring">>, <<"planned">>}))

savePeriod ==
  Mutation(BudgetsApi.savePeriod,
           Invalidate({<<"periods", "b">>, <<"budget-summary", "b">>, <<"budget-history", "b">>}))

deletePeriod ==
  Mutation(BudgetsApi.deletePeriod,
           Invalidate({<<"periods", "b">>, <<"budget-summary", "b">>, <<"budget-history", "b">>}))

goToPeriod  == Mutation(BudgetsApi.derivePeriod, Invalidate({<<"periods", "b">>}))
addCategory == Mutation(BudgetsApi.createCategory, Invalidate({<<"categories", "b">>}))
setAmount   == Mutation(BudgetsApi.setCategoryBudget, Invalidate({<<"budget-summary", "b", "p">>}))

mergeFromCell ==
  Mutation(BudgetsApi.mergeCategory,
           Invalidate({<<"categories", "b">>, <<"workspace-categories">>, <<"budget-summary", "b">>,
                       <<"transactions">>, <<"planned">>}))

\* The shared set of the category dialog: archive, merge, delete.
invalidateCategories ==
  Invalidate({<<"categories", "b">>, <<"workspace-categories">>, <<"budget-summary", "b">>,
              <<"budget-history", "b">>, <<"transactions">>, <<"planned">>})

archiveCategory == Mutation(BudgetsApi.setCategoryArchive, invalidateCategories)
mergeCategory   == Mutation(BudgetsApi.mergeCategory, invalidateCategories)
deleteCategory  == Mutation(BudgetsApi.deleteCategory, invalidateCategories)

createBudget    == Mutation(BudgetsApi.create, Invalidate({<<"budgets">>}))
updateBudget    == Mutation(BudgetsApi.update, Invalidate({<<"budgets">>, <<"budget", "b">>}))
deleteBudget    == Mutation(BudgetsApi.delete, Invalidate({<<"budgets">>, <<"workspace-categories">>}))
unarchiveBudget == Mutation(BudgetsApi.setArchive, Invalidate({<<"budgets">>}))

\* The review dialog refreshes the lists only if it named the transaction.
saveReview ==
  Mutation(TransactionsApi.replaceItems \cup {"texts"},
           Invalidate({<<"transaction-items", "t">>, <<"transactions">>}))

saveReviewItems ==
  Mutation(TransactionsApi.replaceItems, Invalidate({<<"transaction-items", "t">>}))

saveItems == Mutation(TransactionsApi.replaceItems, SetData({<<"transaction-items", "t">>}))

uploadAttachment == Mutation(TransactionsApi.upload, Invalidate({<<"transaction-attachments", "t">>}))

deleteAttachment ==
  Mutation(TransactionsApi.deleteFile,
           Invalidate({<<"transaction-attachments", "t">>}) \cup Drop({<<"attachment-blob", "t", "a">>}))

startExtraction ==
  [Mutation(TransactionsApi.extract, Invalidate({<<"transaction-attachments", "t">>}))
   EXCEPT !.late = TransactionsApi.extract]

saveAccount    == Mutation(AccountsApi.save, Invalidate({<<"accounts">>, <<"current-balances">>}))
archiveAccount == Mutation(AccountsApi.setArchive, Invalidate({<<"accounts">>, <<"current-balances">>}))
deleteAccount  == Mutation(AccountsApi.delete, Invalidate({<<"accounts">>}))

setBalance ==
  Mutation(TransactionsApi.adjust,
           Invalidate({<<"account-balance", "x">>, <<"current-balances">>, <<"transactions">>}))

saveTransfer ==
  Mutation(TransfersApi.save,
           Invalidate({<<"transfers">>, <<"current-balances">>, <<"account-balance">>}))

deleteTransfer ==
  Mutation(TransfersApi.delete,
           Invalidate({<<"transfers">>, <<"current-balances">>, <<"account-balance">>}))

\* Enabling, disabling and custom currencies.
invalidateCurrencies == Invalidate({<<"enabled-currencies">>, <<"currency-catalog">>})

enableCurrency  == Mutation(CurrenciesApi.enable, invalidateCurrencies)
disableCurrency == Mutation(CurrenciesApi.disable, invalidateCurrencies)
customCurrency  == Mutation(CurrenciesApi.createCustom, invalidateCurrencies)

reorderCurrencies ==
  [Mutation(CurrenciesApi.reorder, Invalidate({<<"enabled-currencies">>}))
   EXCEPT !.settles = TRUE, !.optimistic = TRUE]

\* The five bookmark mutations invalidate the list alike.
saveBookmark == Mutation(BookmarksApi.save, Invalidate({<<"bookmarks">>}))
saveSettings == Mutation(WorkspaceSettingsApi.update, Invalidate({<<"workspace-settings">>}))

savePreferences == Mutation(AuthApi.updatePreferences, Invalidate({<<"user-preferences">>}))
saveLanguage    == Mutation(AuthApi.updatePreferences, Invalidate({<<"user-preferences">>}))
saveCap         == Mutation(AuthApi.updatePreferences, Invalidate({<<"user-preferences">>}))

updateProfile == Mutation(AuthApi.updateProfile, {})

addMember    == Mutation(WorkspaceMembersApi.add, Invalidate({<<"workspace-members">>}))
updateRole   == Mutation(WorkspaceMembersApi.updateRole, Invalidate({<<"workspace-members">>}))
removeMember == Mutation(WorkspaceMembersApi.remove, Invalidate({<<"workspace-members">>}))

enable2FA       == Mutation(AuthApi.verifySetup2FA, Invalidate({<<"2fa-status">>}))
disable2FA      == Mutation(AuthApi.disable2FA, Invalidate({<<"2fa-status">>}))
regenerateCodes == Mutation(AuthApi.regenerateCodes, Invalidate({<<"2fa-status">>}))

\* The keys a workspace switch keeps.
userScopedQueryKeys == {"user-preferences", "2fa-status", "extraction-config"}

\* Every other entry is removed; here the watched queries stand for them.
clearWorkspaceScopedQueries(keys) ==
  Drop({k \in keys : Head(k) \notin userScopedQueryKeys})

updateWorkspace ==
  Mutation(WorkspacesApi.update, Invalidate({<<"workspace-current">>, <<"workspaces">>}))

importLegacy ==
  [Mutation(AuthApi.importLegacy, Invalidate({<<>>})) EXCEPT !.switches = TRUE]

setDefaultBudget ==
  Mutation(WorkspacesApi.setDefaultBudget, Invalidate({<<"workspaces">>, <<"workspace-current">>}))

resetAccount ==
  [Mutation(AuthApi.resetAccount, Drop({<<>>})) EXCEPT !.switches = TRUE]

-----------------------------------------------------------------------------
Queries ==
  [accounts |-> useAccounts, enabledCurrencies |-> useEnabledCurrencies,
   budgets |-> useBudgets, workspaceCategories |-> useWorkspaceCategories,
   extractionConfig |-> useExtractionConfig, bookmarks |-> useBookmarks,
   workspaceSettings |-> useWorkspaceSettings, attachments |-> useAttachments,
   attachmentBlob |-> useAttachmentBlob, userPreferences |-> preferencesQuery,
   workspace |-> workspaceQuery, workspaces |-> workspacesQuery, members |-> membersQuery,
   transactions |-> transactionsQuery, totals |-> totalsQuery, recent |-> recentQuery,
   descriptions |-> descriptionsQuery, count |-> countQuery, items |-> itemsQuery,
   planned |-> plannedQuery, plannedTotals |-> plannedTotalsQuery,
   recurring |-> recurringQuery, transfers |-> transfersQuery, transfer |-> transferQuery,
   accountsPage |-> accountsPageQuery, balances |-> balancesQuery, balance |-> balanceQuery,
   budget |-> budgetQuery, periods |-> periodsQuery, currentPeriod |-> currentPeriodQuery,
   categories |-> categoriesQuery, allCategories |-> allCategoriesQuery,
   summary |-> summaryQuery, history |-> historyQuery, catalog |-> catalogQuery,
   twoFactor |-> twoFactorQuery, deleteCheck |-> deleteCheckQuery,
   paletteTransactions |-> paletteTransactions, palettePlanned |-> palettePlanned]

\* Switching, creating and deleting a workspace.
moveToWorkspace(writes) ==
  [Mutation(writes, clearWorkspaceScopedQueries({Queries[q].key : q \in DOMAIN Queries}))
   EXCEPT !.switches = TRUE]

switchWorkspace == moveToWorkspace({})
createWorkspace == moveToWorkspace(WorkspacesApi.create)
deleteWorkspace == moveToWorkspace(WorkspacesApi.delete)

Mutations ==
  [saveTransaction |-> saveTransaction, deleteTransaction |-> deleteTransaction,
   executePlanned |-> executePlanned, executeAdjusted |-> executeAdjusted,
   savePlanned |-> savePlanned, cancelPlanned |-> cancelPlanned, deletePlanned |-> deletePlanned,
   saveRule |-> saveRule, toggleRule |-> toggleRule, deleteRule |-> deleteRule,
   savePeriod |-> savePeriod, deletePeriod |-> deletePeriod, goToPeriod |-> goToPeriod,
   addCategory |-> addCategory, setAmount |-> setAmount, mergeFromCell |-> mergeFromCell,
   archiveCategory |-> archiveCategory, mergeCategory |-> mergeCategory,
   deleteCategory |-> deleteCategory, createBudget |-> createBudget,
   updateBudget |-> updateBudget, deleteBudget |-> deleteBudget,
   unarchiveBudget |-> unarchiveBudget, saveReview |-> saveReview,
   saveReviewItems |-> saveReviewItems, saveItems |-> saveItems,
   uploadAttachment |-> uploadAttachment, deleteAttachment |-> deleteAttachment,
   startExtraction |-> startExtraction, saveAccount |-> saveAccount,
   archiveAccount |-> archiveAccount, deleteAccount |-> deleteAccount,
   setBalance |-> setBalance, saveTransfer |-> saveTransfer, deleteTransfer |-> deleteTransfer,
   enableCurrency |-> enableCurrency, disableCurrency |-> disableCurrency,
   customCurrency |-> customCurrency, reorderCurrencies |-> reorderCurrencies,
   saveBookmark |-> saveBookmark, saveSettings |-> saveSettings,
   savePreferences |-> savePreferences, saveLanguage |-> saveLanguage, saveCap |-> saveCap,
   updateProfile |-> updateProfile,
   addMember |-> addMember, updateRole |-> updateRole, removeMember |-> removeMember,
   enable2FA |-> enable2FA, disable2FA |-> disable2FA, regenerateCodes |-> regenerateCodes,
   updateWorkspace |-> updateWorkspace, importLegacy |-> importLegacy,
   setDefaultBudget |-> setDefaultBudget, resetAccount |-> resetAccount,
   switchWorkspace |-> switchWorkspace, createWorkspace |-> createWorkspace,
   deleteWorkspace |-> deleteWorkspace]

-----------------------------------------------------------------------------
\* Whether mutation m changes what query q shows: while it runs, and later.
Changes(m, q) ==
  \/ Mutations[m].writes \cap Queries[q].reads # {}
  \/ Mutations[m].switches /\ Queries[q].scoped

ChangesLater(m, q) == Mutations[m].late \cap Queries[q].reads # {}

\* What its handler does to q's entry; none of them does two things to one key.
Touch(m, q) ==
  LET hits == {t \in Mutations[m].touches : IsPrefix(t.key, Queries[q].key)}
  IN IF hits = {} THEN "none" ELSE (CHOOSE t \in hits : TRUE).how

-----------------------------------------------------------------------------
(* What no handler refreshes: <<query, mutation>> pairs in which the       *)
(* mutation changes what the query shows and leaves its entry to staleTime *)
(* or the next look.                                                       *)

Saves == {"savePlanned", "cancelPlanned", "deletePlanned", "executePlanned", "executeAdjusted"}

CategoryLosses == {"mergeCategory", "deleteCategory", "mergeFromCell", "deleteBudget"}

TransactionQueries == {"transactions", "totals", "recent", "count"}

PlannedQueries == {"planned", "plannedTotals"}

Unrefreshed ==
  \* An account's name is joined into the rows of other lists.
       ((TransactionQueries \cup PlannedQueries
           \cup {"recurring", "transfers", "transfer", "balance"}) \X {"saveAccount"})
  \* Deleting a budget uncategorizes rows and drops what belongs to it.
  \cup ((TransactionQueries \cup PlannedQueries
           \cup {"bookmarks", "workspace", "workspaces", "budget", "periods", "categories",
                 "allCategories", "summary", "history"}) \X {"deleteBudget"})
  \* Reports of a budget follow the transactions and amounts they add up.
  \cup ({"summary", "history"} \X {"saveTransaction", "deleteTransaction", "saveReview",
                                   "saveReviewItems", "saveItems", "updateBudget"})
  \cup ({"history"} \X {"goToPeriod", "setAmount", "mergeFromCell"})
  \* Rules count their pending plans and carry a category.
  \cup ({"recurring"} \X (Saves \cup CategoryLosses))
  \* Resuming a rule generates plans; a deleted transaction leaves its plan.
  \cup (PlannedQueries \X {"toggleRule", "deleteTransaction"})
  \* Items follow the transaction's amount and their categories.
  \cup ({"items"} \X (CategoryLosses \cup {"saveTransaction"}))
  \cup {<<"totals", "saveItems">>, <<"totals", "saveReviewItems">>, <<"members", "updateProfile">>,
        <<"balance", "deleteTransaction">>,
        <<"balances", "deleteAccount">>, <<"workspaceCategories", "addCategory">>,
        <<"bookmarks", "updateBudget">>, <<"currentPeriod", "updateBudget">>}
  \* The palette's results are kept out of the families on purpose.
  \cup ({"paletteTransactions"} \X (CategoryLosses
           \cup {"saveTransaction", "deleteTransaction", "saveReview", "saveAccount",
                 "setBalance"}))
  \cup ({"palettePlanned"} \X (CategoryLosses \cup Saves
           \cup {"deleteTransaction", "saveRule", "toggleRule", "deleteRule", "saveAccount"}))
  \* The deletion check counts rows.
  \cup ({"deleteCheck"} \X (Saves \cup {"saveTransaction", "deleteTransaction", "saveRule",
           "toggleRule", "deleteRule", "addMember", "updateRole", "removeMember"}))
=============================================================================
