-------------------------- MODULE ServiceCallsProofs --------------------------
(***************************************************************************)
(* What ServiceCalls promises for every set of callers and any number of     *)
(* tries.  Each step of the invariant's proof looks at one action and at the *)
(* attempt it moves; all other attempts are unchanged.                      *)
(***************************************************************************)
EXTENDS ServiceCalls, TLAPS

USE DEF Attempts, session, Told, Shapes, Protocols, Client!Outcomes, Client!Effectless

\* The methods of the services are methods.
LEMMA MethodsTyped == Methods \subseteq Method
<1> USE DEF Method, Checked, Unchecked
<1>1. DocumentsMethods \subseteq Method
  BY DEF DocumentsMethods, CheckInventory, ImportIncomingInvoice,
         ImportOutgoingInvoice, ImportReturnedInvoice, ImportProductionDocument,
         ImportSalesDocument, ImportIncomingInventory, unprocess, ListDocuments,
         DocumentByID, ExportIncomingInvoices, ExportIncomingInvoiceByNumber,
         ExportOutgoingInvoices, ExportOutgoingInvoiceByNumber, DocumentsByNumber
<1>2. CashShiftsMethods \subseteq Method
  BY DEF CashShiftsMethods, ClosedSessionDocument, AcceptShift, AddPayOut,
         PayInOutTypes, Payrolls, ListCashShifts, CashShiftByID,
         CashShiftPaymentsByID
<1>3. RecipesMethods \subseteq Method
  BY DEF RecipesMethods, SaveChart, DeleteChart, ChartHistory, ChartsGetAll,
         chartFor, ChartByID
<1>4. NomenclatureMethods \subseteq Method
  BY DEF NomenclatureMethods, ListProducts, QueryProducts, SaveProduct,
         UpdateProduct, DeleteProducts, RestoreProducts, ProductsXML,
         SearchProductsXML, FindProducts, ListGroups, QueryGroups, ListCategories,
         QueryCategories, SaveGroup, UpdateGroup, moveTree, SaveCategory,
         UpdateCategory, DeleteCategory, RestoreCategory, ListQuickMenus,
         QueryQuickMenus, SaveQuickMenu, UpdateQuickMenu, DeleteQuickMenu,
         LoadImage, SaveImage, DeleteImages, ListProductScales,
         QueryProductScales, ProductScaleByID, SaveProductScale,
         UpdateProductScale, scaleIDWrite, ProductScaleBinding, BindProductScale,
         UnbindProductScale, ProductScalesFor, QueryProductScalesFor
<1>5. PricingMethods \subseteq Method
  BY DEF PricingMethods, ListPrices, ListMenuChanges, MenuChangeByID,
         MenuChangeByNumber, SaveMenuChange, ListPriceCategories,
         PriceCategoryByID, ListPeriodSchedules, PeriodScheduleByID
<1>6. StaffMethods \subseteq Method
  BY DEF StaffMethods, Schedules, Attendances, writeSchedule, writeAttendance,
         deleteByID, ScheduleTypes, AttendanceTypes, Availability, Employees,
         EmployeesByDepartment, SearchEmployees, employee, ReplaceEmployee,
         UpdateEmployee, Roles, Salaries, SalaryByID, PaySalary, WaiterTeams,
         WaiterTeamsByDepartment, SearchWaiterTeams, WaiterTeamByID,
         ReplaceWaiterTeamByCode, Assignments, AssignmentsByDepartment,
         ReplaceAssignments
<1>7. EdiMethods \subseteq Method
  BY DEF EdiMethods, SendInvoice, AckOrder, OrdersBySeller, ListOrders,
         CreateOrder, UpdateOrder, moveOrders, RespondToOrder
<1>8. EventsMethods \subseteq Method
  BY DEF EventsMethods, ListEvents, ListEventsSince, FilterEvents, AddEvents,
         Metadata, FilterMetadata, ListSessions
<1>9. CorporationMethods \subseteq Method
  BY DEF CorporationMethods, Settings, ListReferenceEntities, EntityIDs,
         SearchDepartments, SearchStores, SearchGroups, SearchTerminals,
         ReplicationStatuses, ReplicationStatus, listCorporate, listAccounts,
         ServerType
<1>10. SuppliersMethods \subseteq Method
  BY DEF SuppliersMethods, SuppliersList, SuppliersSearch, Pricelist
<1>11. ReportsMethods \subseteq Method
  BY DEF ReportsMethods, Olap, OlapFields, StoreBalances, OlapPresets,
         OlapPresetsByType, OlapByPresetID, CounteragentBalances, EgaisMarks,
         SalesReport, ProductExpense, MonthlyIncomePlan, IngredientEntry,
         StoreOperations, StoreReportPresets, OlapV1, DeliveryReport
<1>12. LicenceMethods \subseteq Method
  BY DEF LicenceMethods, LicenceInfo
<1>13. CloudMethods \subseteq Method
  BY DEF CloudMethods, customers, employees, employeeCreation, finance,
         financeCreation, inventoryPayment, inventoryCancellation,
         inventoryCreation, inventoryReading, inventoryListing, inventoryPosting,
         inventoryUpdate, menuCreation, menuReading, menuUpdate, orderCommands,
         orderReading, orderHandling, trackingLinks, organizations, webhooks
<1> QED
  BY <1>1, <1>2, <1>3, <1>4, <1>5, <1>6, <1>7, <1>8, <1>9, <1>10, <1>11, <1>12,
     <1>13 DEF Methods

\* A body is of one of the shapes, whatever the protocol and the decision.
LEMMA BodiesTyped ==
    ASSUME NEW s \in Protocols, NEW d \in {"none", "applied", "rejected"}
    PROVE  Bodies(s, d) \subseteq Shapes
<1>1. CASE d = "none"
  BY <1>1 DEF Bodies
<1>2. CASE d = "applied"
  BY <1>2 DEF Bodies
<1>3. CASE d = "rejected"
  BY <1>3 DEF Bodies
<1> QED
  BY <1>1, <1>2, <1>3

\* What a verdict says of the decision behind the body: success, where the body is looked
\* at, means that the write was carried out, and a rejection that it was not, unless it is
\* that of a document answered without <valid>.
LEMMA VerdictSound ==
    ASSUME NEW m \in Method, NEW d \in {"none", "applied", "rejected"},
           NEW b \in Bodies(m.speaks, d)
    PROVE  /\ Verdict(m, b) \in {"ok", "rejected", "undecoded", "unidentified"}
           /\ Verdict(m, b) = "ok" /\ m.reads # "nothing" => d = "applied"
           /\ Verdict(m, b) = "rejected" => d = "rejected" \/ b = "noVerdict"
           /\ b = "noVerdict" => m.speaks = "document"
<1>1. m.speaks \in Protocols
  BY DEF Method
<1>2. d \in {"applied", "rejected"} /\ (m.speaks \in {"xml", "cloud"} => d = "applied")
  BY <1>1 DEF Bodies
<1>3. CASE m.speaks = "v2"
  <2>1. /\ d = "applied" => b \in {"response", "noResponse", "bare", "unreadable"}
        /\ d = "rejected" => b \in {"resultError", "unreadable"}
    BY <1>2, <1>3 DEF Bodies
  <2> QED
    BY <1>2, <1>3, <2>1 DEF Verdict, DecodeV2
<1>4. CASE m.speaks = "document"
  <2>1. /\ d = "applied" => b \in {"valid", "noVerdict", "unreadable"}
        /\ d = "rejected" => b \in {"invalid", "noVerdict", "unreadable"}
    BY <1>2, <1>4 DEF Bodies
  <2> QED
    BY <1>2, <1>4, <2>1 DEF Verdict, importDoc
<1>5. CASE m.speaks = "xml"
  <2>1. b \in {"entity", "emptyList", "unreadable"}
    BY <1>2, <1>5 DEF Bodies
  <2> QED
    BY <1>2, <1>5, <2>1 DEF Verdict, DecodeXML
<1>6. CASE m.speaks = "cloud"
  <2>1. b \in {"entity", "empty", "unreadable"}
    BY <1>2, <1>6 DEF Bodies
  <2> QED
    BY <1>2, <1>6, <2>1 DEF Verdict, Post
<1> QED
  BY <1>1, <1>3, <1>4, <1>5, <1>6

-----------------------------------------------------------------------------
\* The first state satisfies the invariant.
LEMMA InitIInv == Init => IInv
<1> SUFFICES ASSUME Init PROVE IInv
  OBVIOUS
<1> USE DEF Init, Client!Init
<1>1. 1 \in 1 .. Tries /\ \A c \in Callers : Attempt(c) \in Attempts
  BY TriesAssumption DEF Attempt
<1>2. TypeOK
  BY <1>1, MethodsTyped DEF TypeOK
<1>3. Decided /\ OtherAttempts
  BY TriesAssumption DEF Decided, OtherAttempts, NotApplied
<1>4. CurrentAttempt /\ VerdictsOfDocuments /\ OkMeansApplied
  BY <1>1, TriesAssumption DEF CurrentAttempt, VerdictsOfDocuments, OkMeansApplied, NothingDone
<1> QED
  BY <1>2, <1>3, <1>4 DEF IInv

\* An attempt that is under way, or was lost, is the one its caller is at.
LEMMA OpenAttempt ==
    ASSUME IInv, NEW c \in Callers, NEW n \in 1 .. Tries,
           <<c, n>> \in open \/ outcome[<<c, n>>] = "lost"
    PROVE  /\ n = try[c]
           /\ told[c] \notin NothingDone
           /\ stage[c] # "ready"
  BY DEF IInv, TypeOK, OtherAttempts, CurrentAttempt, Attempt, NothingDone

\* The server handles an attempt: nobody has been told yet that nothing was done.
LEMMA HandleInv ==
    ASSUME IInv, NEW a \in Attempts, Handle(a)
    PROVE  IInv'
<1>1. PICK c \in Callers, n \in 1 .. Tries : a = <<c, n>>
  OBVIOUS
<1>2. n = try[c] /\ told[c] \notin NothingDone /\ stage[c] # "ready"
  BY <1>1, OpenAttempt DEF Handle, Client!TakeEffect
<1>3. PICK d \in {"applied", "rejected"} : decision' = [decision EXCEPT ![a] = d]
  BY DEF Handle
<1>4. /\ a \notin effect /\ effect' = effect \cup {a}
      /\ UNCHANGED <<open, outcome, method, fit, try, stage, told, body>>
  BY DEF Handle, Client!TakeEffect
<1>5. \A b \in Attempts : b # a => decision'[b] = decision[b]
  BY <1>3 DEF IInv, TypeOK
<1>6. \A e \in Callers, m \in 1 .. Tries : <<e, m>> = a => e = c /\ m = try[c]
  BY <1>1, <1>2
<1>7. TypeOK'
  BY <1>3, <1>4 DEF IInv, TypeOK
<1>8. Decided'
  BY <1>3, <1>4 DEF IInv, TypeOK, Decided
<1>9. CurrentAttempt'
  <2>1. SUFFICES ASSUME NEW e \in Callers PROVE CurrentAttempt!(e)'
    BY DEF CurrentAttempt
  <2> QED
    BY <1>2, <1>4, <1>5, <1>6 DEF IInv, TypeOK, CurrentAttempt, Attempt, NotApplied
<1>10. OtherAttempts' /\ VerdictsOfDocuments'
  BY <1>4, <1>5, <1>6 DEF IInv, TypeOK, OtherAttempts, VerdictsOfDocuments, NotApplied
<1>11. OkMeansApplied'
  <2>1. \A e \in Callers : Attempt(e) \in Attempts
    BY DEF IInv, TypeOK, Attempt
  <2>2. decision[a] = "none"
    BY <1>4 DEF IInv, Decided, TypeOK
  <2> QED
    BY <1>4, <1>5, <2>1, <2>2 DEF IInv, OkMeansApplied, Attempt
<1> QED
  BY <1>7, <1>8, <1>9, <1>10, <1>11 DEF IInv

\* Refused arguments: nothing was sent.
LEMMA RefuseInv ==
    ASSUME IInv, NEW c \in Callers, Refuse(c)
    PROVE  IInv'
<1>1. /\ stage[c] = "ready"
      /\ stage' = [stage EXCEPT ![c] = "back"]
      /\ told' = [told EXCEPT ![c] = "refused"]
      /\ UNCHANGED <<open, effect, outcome, method, fit, try, body, decision>>
  BY DEF Refuse
<1>2. Attempt(c) \in Attempts /\ Attempt(c) \notin open
      /\ outcome[Attempt(c)] = "none" /\ decision[Attempt(c)] = "none"
  BY <1>1 DEF IInv, TypeOK, CurrentAttempt, Attempt
<1>3. TypeOK'
  BY <1>1 DEF IInv, TypeOK
<1>4. Decided' /\ OtherAttempts' /\ VerdictsOfDocuments'
  BY <1>1 DEF IInv, Decided, OtherAttempts, VerdictsOfDocuments, NotApplied
<1>5. CurrentAttempt'
  <2>1. SUFFICES ASSUME NEW e \in Callers PROVE CurrentAttempt!(e)'
    BY DEF CurrentAttempt
  <2>2. CASE e = c
    BY <1>1, <1>2, <2>2 DEF IInv, TypeOK, CurrentAttempt, Attempt, NotApplied
  <2>3. CASE e # c
    BY <1>1, <2>3 DEF IInv, TypeOK, CurrentAttempt, Attempt, NothingDone, NotApplied
  <2> QED
    BY <2>2, <2>3
<1>6. OkMeansApplied'
  BY <1>1 DEF IInv, TypeOK, OkMeansApplied, Attempt
<1> QED
  BY <1>3, <1>4, <1>5, <1>6 DEF IInv

\* The client admits an attempt that nothing has happened to yet.
LEMMA SendInv ==
    ASSUME IInv, NEW c \in Callers, Send(c)
    PROVE  IInv'
<1>1. /\ stage[c] = "ready"
      /\ open' = open \cup {Attempt(c)}
      /\ stage' = [stage EXCEPT ![c] = "calling"]
      /\ UNCHANGED <<effect, outcome, method, fit, try, told, body, decision>>
  BY DEF Send, Client!Admit
<1>2. Attempt(c) \in Attempts
  BY DEF IInv, TypeOK, Attempt
<1>3. TypeOK'
  BY <1>1, <1>2 DEF IInv, TypeOK
<1>4. Decided'
  BY <1>1 DEF IInv, Decided
<1>5. CurrentAttempt'
  <2>1. SUFFICES ASSUME NEW e \in Callers PROVE CurrentAttempt!(e)'
    BY DEF CurrentAttempt
  <2>2. CASE e = c
    BY <1>1, <2>2 DEF IInv, TypeOK, CurrentAttempt, Attempt, NothingDone
  <2>3. CASE e # c
    <3>1. Attempt(e) \in Attempts /\ Attempt(e) # Attempt(c)
      BY <2>3 DEF IInv, TypeOK, Attempt
    <3> QED
      BY <1>1, <2>3, <3>1 DEF IInv, TypeOK, CurrentAttempt, Attempt, NothingDone, NotApplied
  <2> QED
    BY <2>2, <2>3
<1>6. OtherAttempts' /\ VerdictsOfDocuments'
  BY <1>1 DEF IInv, TypeOK, OtherAttempts, VerdictsOfDocuments, Attempt, NotApplied
<1>7. OkMeansApplied'
  BY <1>1 DEF IInv, OkMeansApplied, Attempt
<1> QED
  BY <1>3, <1>4, <1>5, <1>6, <1>7 DEF IInv

\* What Judge and Fail share: the client answers an attempt, and what the caller is told
\* claims no more than is known.
LEMMA SettleInv ==
    ASSUME IInv, NEW c \in Callers,
           NEW o \in Client!Outcomes, NEW t \in Told,
           stage[c] = "calling",
           Client!Settle(Attempt(c), o),
           stage' = [stage EXCEPT ![c] = "back"],
           told' = [told EXCEPT ![c] = t],
           UNCHANGED <<method, fit, try, decision>>,
           NEW b \in Shapes, b = "noVerdict" => method[c].speaks = "document",
           body' = [body EXCEPT ![Attempt(c)] = b],
           t \in NothingDone => o # "lost" /\ (decision[Attempt(c)] = "applied" => b = "noVerdict"),
           t = "ok" /\ method[c].reads # "nothing" => decision[Attempt(c)] = "applied"
    PROVE  IInv'
<1>1. /\ Attempt(c) \in Attempts
      /\ open' = open \ {Attempt(c)}
      /\ outcome' = [outcome EXCEPT ![Attempt(c)] = o]
      /\ UNCHANGED effect
  BY DEF Client!Settle, IInv, TypeOK, Attempt
<1>2. TypeOK'
  BY <1>1 DEF IInv, TypeOK
<1>3. Decided'
  BY <1>1 DEF IInv, Decided
<1>4. CurrentAttempt'
  <2>1. SUFFICES ASSUME NEW e \in Callers PROVE CurrentAttempt!(e)'
    BY DEF CurrentAttempt
  <2>2. Attempt(e) \in Attempts
    BY DEF IInv, TypeOK, Attempt
  <2>3. CASE e = c
    BY <1>1, <2>2, <2>3 DEF IInv, TypeOK, CurrentAttempt, Attempt, NotApplied
  <2>4. CASE e # c
    <3>1. Attempt(e) # Attempt(c)
      BY <2>4 DEF Attempt
    <3> QED
      BY <1>1, <2>2, <2>4, <3>1 DEF IInv, TypeOK, CurrentAttempt, Attempt, NothingDone,
                                        NotApplied
  <2> QED
    BY <2>3, <2>4
<1>5. OtherAttempts'
  <2>1. SUFFICES ASSUME NEW e \in Callers, NEW n \in 1 .. Tries, n # try[e]
                 PROVE  OtherAttempts!(e)!(n)!2'
    BY DEF OtherAttempts
  <2>2. <<e, n>> \in Attempts /\ <<e, n>> # Attempt(c)
    BY <2>1 DEF Attempt
  <2> QED
    BY <1>1, <2>1, <2>2 DEF IInv, TypeOK, OtherAttempts, NotApplied
<1>6. OkMeansApplied'
  BY DEF IInv, TypeOK, OkMeansApplied, Attempt
<1>7. VerdictsOfDocuments'
  <2> SUFFICES ASSUME NEW e \in Callers, NEW n \in 1 .. Tries, body'[<<e, n>>] = "noVerdict"
               PROVE  method[e].speaks = "document"
    BY DEF VerdictsOfDocuments
  <2>1. CASE <<e, n>> = Attempt(c)
    BY <1>1, <2>1 DEF Attempt, IInv, TypeOK
  <2>2. CASE <<e, n>> # Attempt(c)
    BY <1>1, <2>2 DEF IInv, TypeOK, VerdictsOfDocuments
  <2> QED
    BY <2>1, <2>2
<1> QED
  BY <1>2, <1>3, <1>4, <1>5, <1>6, <1>7 DEF IInv

\* An answer is judged by what VerdictSound says of it.
LEMMA JudgeInv ==
    ASSUME IInv, NEW c \in Callers, Judge(c)
    PROVE  IInv'
<1>1. Attempt(c) \in Attempts /\ method[c] \in Method
      /\ method[c].speaks \in Protocols
      /\ decision[Attempt(c)] \in {"none", "applied", "rejected"}
  BY DEF IInv, TypeOK, Attempt, Method
<1>2. PICK b \in Bodies(method[c].speaks, decision[Attempt(c)]) :
          /\ body' = [body EXCEPT ![Attempt(c)] = b]
          /\ told' = [told EXCEPT ![c] = Verdict(method[c], b)]
  BY DEF Judge
<1>3. /\ Verdict(method[c], b) \in {"ok", "rejected", "undecoded", "unidentified"}
      /\ Verdict(method[c], b) = "ok" /\ method[c].reads # "nothing"
            => decision[Attempt(c)] = "applied"
      /\ Verdict(method[c], b) = "rejected" =>
            decision[Attempt(c)] = "rejected" \/ b = "noVerdict"
      /\ b = "noVerdict" => method[c].speaks = "document"
  BY <1>1, <1>2, VerdictSound
<1>4. b \in Shapes
  BY <1>1, <1>2, BodiesTyped
<1>6. /\ stage[c] = "calling"
      /\ Client!Settle(Attempt(c), "ok")
      /\ stage' = [stage EXCEPT ![c] = "back"]
      /\ UNCHANGED <<method, fit, try, decision>>
  BY DEF Judge
<1>7. PICK t \in Told, o \in Client!Outcomes : t = Verdict(method[c], b) /\ o = "ok"
  BY <1>3
<1>8. /\ Client!Settle(Attempt(c), o)
      /\ told' = [told EXCEPT ![c] = t]
      /\ body' = [body EXCEPT ![Attempt(c)] = b]
      /\ b = "noVerdict" => method[c].speaks = "document"
      /\ t = "ok" /\ method[c].reads # "nothing" => decision[Attempt(c)] = "applied"
  BY <1>2, <1>3, <1>6, <1>7
<1>9. t \in NothingDone => o # "lost" /\ (decision[Attempt(c)] = "applied" => b = "noVerdict")
  BY <1>3, <1>7 DEF NothingDone
<1> HIDE DEF Told, Shapes, Client!Outcomes
<1> QED
  BY <1>4, <1>6, <1>8, <1>9, SettleInv

\* An error of the client is passed on; three of them say that nothing was done.
LEMMA FailInv ==
    ASSUME IInv, NEW c \in Callers, Fail(c)
    PROVE  IInv'
<1>1. PICK o \in ErrorsOf(method[c].speaks) :
          /\ Client!Settle(Attempt(c), o)
          /\ told' = [told EXCEPT ![c] = o]
  BY DEF Fail
<1>2. /\ stage[c] = "calling"
      /\ stage' = [stage EXCEPT ![c] = "back"]
      /\ UNCHANGED <<method, fit, try, decision, body>>
  BY DEF Fail
<1>4. Attempt(c) \in Attempts
  BY DEF IInv, TypeOK, Attempt
<1> DEFINE b == body[Attempt(c)]
<1>3. /\ b \in Shapes /\ body' = [body EXCEPT ![Attempt(c)] = b]
      /\ b = "noVerdict" => method[c].speaks = "document"
  BY <1>2, <1>4 DEF IInv, TypeOK, VerdictsOfDocuments, Attempt
<1>0. o \in {"error", "unauthorized", "lost", "limited", "authError"}
  BY <1>1 DEF ErrorsOf
<1>5. o \in {"unauthorized", "limited", "authError"} => decision[Attempt(c)] # "applied"
  BY <1>1, <1>4 DEF Client!Settle, IInv, Decided, TypeOK
<1>6. o \in NothingDone => o # "lost" /\ decision[Attempt(c)] # "applied"
  BY <1>0, <1>5 DEF NothingDone
<1>7. o \in Told /\ o \in Client!Outcomes /\ o # "ok"
  BY <1>0
<1> HIDE DEF b, Told, Shapes, Client!Outcomes
<1> QED
  BY <1>1, <1>2, <1>3, <1>6, <1>7, SettleInv

\* The next attempt is a new one, and the one before it is known not to be carried out.
LEMMA RepeatInv ==
    ASSUME IInv, NEW c \in Callers, Repeat(c)
    PROVE  IInv'
<1>1. /\ stage[c] = "back" /\ told[c] \in NothingDone /\ try[c] < Tries
      /\ try' = [try EXCEPT ![c] = @ + 1]
      /\ fit' = [fit EXCEPT ![c] = TRUE]
      /\ stage' = [stage EXCEPT ![c] = "ready"]
      /\ told' = [told EXCEPT ![c] = "nothing"]
      /\ UNCHANGED <<open, effect, outcome, method, body, decision>>
  BY DEF Repeat
<1>2. try[c] \in 1 .. Tries /\ try[c] + 1 \in 1 .. Tries /\ try'[c] = try[c] + 1
      /\ \A e \in Callers : e # c => try'[e] = try[e]
  BY <1>1, TriesAssumption DEF IInv, TypeOK
<1>3. TypeOK'
  BY <1>1, <1>2 DEF IInv, TypeOK
<1>4. Decided'
  BY <1>1 DEF IInv, Decided
<1>5. /\ <<c, try[c]>> \notin open
      /\ outcome[<<c, try[c]>>] # "lost"
      /\ NotApplied(<<c, try[c]>>)
  BY <1>1 DEF IInv, CurrentAttempt, Attempt
<1>6. /\ <<c, try[c] + 1>> \notin open
      /\ outcome[<<c, try[c] + 1>>] = "none"
      /\ decision[<<c, try[c] + 1>>] = "none"
  BY <1>2 DEF IInv, OtherAttempts
<1>7. CurrentAttempt'
  <2>1. SUFFICES ASSUME NEW e \in Callers PROVE CurrentAttempt!(e)'
    BY DEF CurrentAttempt
  <2>2. CASE e = c
    BY <1>1, <1>2, <1>6, <2>2 DEF IInv, TypeOK, Attempt, NothingDone
  <2>3. CASE e # c
    BY <1>1, <1>2, <2>3 DEF IInv, TypeOK, CurrentAttempt, Attempt, NothingDone, NotApplied
  <2> QED
    BY <2>2, <2>3
<1>8. OtherAttempts'
  <2>1. SUFFICES ASSUME NEW e \in Callers, NEW n \in 1 .. Tries, n # try'[e]
                 PROVE  OtherAttempts!(e)!(n)!2'
    BY DEF OtherAttempts
  <2>2. CASE e # c
    BY <1>1, <1>2, <2>1, <2>2 DEF IInv, OtherAttempts, NotApplied
  <2>3. CASE e = c /\ n = try[c]
    BY <1>1, <1>2, <1>5, <2>3 DEF NotApplied
  <2>4. CASE e = c /\ n # try[c]
    <3>1. n > try'[e] => n > try[c]
      BY <1>2, <2>4
    <3> QED
      BY <1>1, <1>2, <2>4, <3>1 DEF IInv, OtherAttempts, NotApplied
  <2> QED
    BY <2>2, <2>3, <2>4
<1>10. VerdictsOfDocuments'
  BY <1>1 DEF IInv, VerdictsOfDocuments
<1>9. OkMeansApplied'
  BY <1>1, <1>2 DEF IInv, TypeOK, OkMeansApplied, Attempt
<1> QED
  BY <1>3, <1>4, <1>7, <1>8, <1>9, <1>10 DEF IInv

\* Every step preserves the invariant.
LEMMA NextInv == IInv /\ [Next]_vars => IInv'
<1> SUFFICES ASSUME IInv, [Next]_vars PROVE IInv'
  OBVIOUS
<1>1. ASSUME NEW c \in Callers, Refuse(c) \/ Send(c) \/ Judge(c) \/ Fail(c) \/ Repeat(c)
      PROVE  IInv'
  BY <1>1, RefuseInv, SendInv, JudgeInv, FailInv, RepeatInv
<1>2. ASSUME NEW a \in Attempts, Handle(a)
      PROVE  IInv'
  BY <1>2, HandleInv
<1>3. CASE UNCHANGED vars
  BY <1>3 DEF vars, IInv, TypeOK, Decided, CurrentAttempt, OtherAttempts,
              VerdictsOfDocuments, OkMeansApplied, Attempt, NotApplied
<1> QED
  BY <1>1, <1>2, <1>3 DEF Next, Finished

-----------------------------------------------------------------------------
\* For every set of callers, of whatever methods, and any number of tries, the
\* invariant holds in every reachable state.
THEOREM CallsInvariant == Spec => []IInv
  BY InitIInv, NextInv, PTL DEF Spec

\* Every variable has its type.
THEOREM TypeCorrect == Spec => []TypeOK
<1>1. IInv => TypeOK
  BY DEF IInv
<1> QED
  BY <1>1, CallsInvariant, PTL

\* A method that reads the answer reports success only of an operation that was carried out.
THEOREM SuccessMeansApplied == Spec => []OkMeansApplied
<1>1. IInv => OkMeansApplied
  BY DEF IInv
<1> QED
  BY <1>1, CallsInvariant, PTL

\* A caller told that nothing was done is told so of all its attempts, for good; of a
\* document's, unless the answer left the verdict out.
THEOREM NothingDoneIsFinal == Spec => []NotAppliedIsFinal
<1>1. IInv => NotAppliedIsFinal
  <2> SUFFICES ASSUME IInv, NEW c \in Callers, told[c] \in NothingDone,
                      NEW n \in 1 .. try[c]
               PROVE  NotApplied(<<c, n>>) /\ outcome[<<c, n>>] # "lost"
    BY DEF NotAppliedIsFinal
  <2>1. try[c] \in 1 .. Tries /\ n \in 1 .. Tries
    BY TriesAssumption DEF IInv, TypeOK
  <2>2. CASE n = try[c]
    BY <2>2 DEF IInv, CurrentAttempt, Attempt
  <2>3. CASE n # try[c]
    BY <2>1, <2>3 DEF IInv, OtherAttempts
  <2> QED
    BY <2>2, <2>3
<1> QED
  BY <1>1, CallsInvariant, PTL

\* However often a call is repeated after answers that are taken to rule out that it was
\* done, it is carried out at most once; only a document may be applied again, after an
\* answer without <valid>, which importDoc reports as a rejection.
THEOREM RepeatsApplyOnce == Spec => []RepeatIsSafe
<1>1. IInv => RepeatIsSafe
  <2> SUFFICES ASSUME IInv, NEW c \in Callers, NEW m \in 1 .. Tries, NEW n \in 1 .. Tries, m < n,
                      decision[<<c, m>>] = "applied", decision[<<c, n>>] = "applied"
               PROVE  method[c].speaks = "document" /\ body[<<c, m>>] = "noVerdict"
    BY DEF RepeatIsSafe
  <2>1. try[c] \in 1 .. Tries
    BY DEF IInv, TypeOK
  <2>2. n <= try[c]
    BY <2>1 DEF IInv, OtherAttempts
  <2>3. m # try[c]
    BY <2>1, <2>2
  <2>4. body[<<c, m>>] = "noVerdict"
    BY <2>3 DEF IInv, OtherAttempts, NotApplied
  <2> QED
    BY <2>4 DEF IInv, VerdictsOfDocuments
<1> QED
  BY <1>1, CallsInvariant, PTL
=============================================================================
