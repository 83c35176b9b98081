----------------------------- MODULE RoundTripsProofs -----------------------------
(***************************************************************************)
(* What RoundTrips promises for any number of callers: each reads, edits   *)
(* and writes what it wants to, whenever it wants to.  First what the      *)
(* proofs need to know of the types and of the methods that write them;    *)
(* then what the codec does to a value on its way in and out; last the     *)
(* steps of the callers.                                                   *)
(***************************************************************************)
EXTENDS RoundTrips, TLAPS

-----------------------------------------------------------------------------
(* The types.  Those that nest others, and those that are nested.          *)

JsonOwners ==
  {ClosedSessionDocumentDto, InternalTransferDto, WriteoffDocumentDto, IdListDto, ProductDto,
   ProductGroupDto, ProductSizeDto, ProductScaleBindingDto, ProductScaleDto, QuickMenuDto,
   ClientPriceCategoryDto, MenuChangeDocumentItemDto, MenuChangeDocumentDto, PeriodScheduleDto,
   EgaisBRegDto, EgaisMarksListResponse, OlapPreset, OlapV2RequestBody, PaymentRecord,
   CashShiftPayments, AssemblyChartDto}
XmlOwners ==
  {JurPersonAdditionalPropertiesDto, IncomingInventoryDto, IncomingInvoiceDto, OutgoingInvoiceDto,
   ProductionDocumentDto, ReturnedInvoiceDto, SalesDocumentDto, EdiMessageHeaderDto,
   QuantityDto, InvoiceItemDto, InvoiceDto, OrderItemDto, OrderDto, OrderResponseItemDto,
   OrderResponseDto, EdiMessageDto, EventDto, EventsListDto, ProductDtoXML, DeliveryCourierRow,
   DeliveryHalfHourRow, DeliveryLoyaltyRow, StoreReportPreset, EmployeeDto,
   WaiterTeamAssignmentsDto}
JsonParts ==
  {ClosedSessionItemDto, SessionRefDto, InternalTransferItemDto, WriteoffDocumentItemDto,
   IdListItemDto, BarcodeContainerDto, ChoiceBindingDto, ContainerDto__nomenclature,
   RGBColorDto, ProductSizeFactorDto, ProductSizeDto, QuickLabelDto, PricingStrategyDto,
   IncludeForCategoryDto, PriceForCategoryDto, MenuChangeDocumentItemDto, PeriodScheduleItemDto,
   EgaisMarkStateDto, EgaisBRegDto, OlapFilter, TransactionInfo, PaymentRecord,
   AssemblyChartItem}
XmlParts ==
  {LegalAddressDto, OfficialEmployeeDto, IncomingInventoryItemDto, IncomingInvoiceItemDto,
   OutgoingInvoiceItemDto, ProductionDocumentItemDto, ReturnedInvoiceItemDto,
   SalesDocumentItemDto, ContractorDto, ContainerDto__edi, QuantityDto, DeliveryInfoDto,
   DocumentIdentifierDto, InvoiceItemDto, OrderItemDto, OrderResponseItemDto,
   EdiMessageHeaderDto, InvoiceDto, OrderDto, OrderResponseDto, EventAttributeDto, EventDto,
   BarcodeContainerDtoXML, ContainerDtoXML, DeliveryCourierMetric, DeliveryHalfHourMetric,
   DeliveryLoyaltyRegion, KeyValue, StoreOperationsReportGrouping, StoreReportPresetFilter,
   PublicExternalDataEntryDto, AssignmentEntryDto}

\* All other types nest none.
LEMMA OthersNestNone ==
    \A t \in Types \ (JsonOwners \cup XmlOwners) : t.of = {}
<1> SUFFICES ASSUME NEW t \in Types, t \notin JsonOwners, t \notin XmlOwners
             PROVE  t.of = {}
  OBVIOUS
<1> QED
  BY DEF Types, JsonOwners, XmlOwners, Dto, Nests, Aliased,
         AddPayOutResultDto, AuthInfoDto, CashFlowCategoryDto, CashShiftPaymentsDto,
         CashShiftSessionDto, ClosedSessionItemDto, SessionRefDto, ConceptionRefDto,
         ErrorDto, ItemErrorDto, PayInOutTypeDto, PayOutRequestDto, PaymentRecordDto,
         PayrollDto, SaveErrorsDto, SaveResultDto, TransactionInfoDto, AccountDto,
         CorporateItemDto, CorporationSettingsDto, EntityListItemDto, GroupDto, IdNameDto,
         LegalAddressDto, OfficialEmployeeDto, PointOfSaleDto, TerminalDto,
         DocumentValidationResultDto, IdCodeNameDto, IncomingInventoryItemDto,
         IncomingInventoryValidationResultDto, IncomingInventoryValidationResultItemDto,
         IncomingInvoiceItemDto, InternalTransferItemDto, OutgoingInvoiceItemDto,
         ProductionDocumentItemDto, ReturnedInvoiceItemDto, SalesDocumentItemDto,
         WriteoffDocumentItemDto, ContainerDto__edi, ContractorDto, DeliveryInfoDto,
         DocumentIdentifierDto, EdiOrderWarningDto, OrderCreationOrUpdateResultDto,
         EventAttributeDto, EventAttributeMetadataDto, EventGroupDto, EventTypeMetadataDto,
         EventsRequestDataDto, GroupsListDto, BarcodeContainerDto, BarcodeContainerDtoXML,
         ChoiceBindingDto, ContainerDtoXML, ContainerDto__nomenclature, DepartmentFilterDto,
         EntityDto, IdListItemDto, ImageDto, RGBColorDto, ProductSizeFactorDto,
         ProductsAndGroupsDto, QuickLabelDto, PricingStrategyDto, IncludeForCategoryDto,
         PriceForCategoryDto, PeriodDto, PeriodScheduleItemDto, ProductPriceDto,
         ProductPriceItemDto, AssemblyChartItemDto, PreparedChartItemDto,
         BalanceCounteragentEntry, BalanceStoreEntry, BudgetPlanItemDto, DayDishValueDto,
         DeliveryConsolidatedRow, DeliveryCourierMetric, DeliveryHalfHourMetric,
         DeliveryLoyaltyRegion, DeliveryOrderCycleRow, DeliveryRegionRow, EgaisMarkStateDto,
         IngredientEntryDto, KeyValue, OlapColumnDescriptor, OlapFieldsDeliveries,
         OlapFieldsSales, OlapFieldsStock, OlapFieldsTransactions, OlapFilter,
         OlapFilterDateRange, OlapFilterIncludeExcludeValues, OlapFilterRange,
         OlapV2Response, StoreOperationsReportGrouping, StoreReportItemDto,
         StoreReportPresetFilter, AssignmentEntryDto, AttendanceDto, AttendanceTypeDto,
         AvailabilityDto, PublicExternalDataEntryDto, EmployeeRoleDto, PaymentDetailsDto,
         SalaryDto, ScheduleDto, ScheduleTypeDto, WaiterTeamDto, SupplierPriceListItemDto,
         TransactionInfo, CashShiftSession, AssemblyChartItem

\* The types with a JSON codec nest such types, and those with an XML codec nest those.
LEMMA OwnersNest ==
    /\ \A t \in JsonOwners : t.form = "json" /\ t.of \subseteq JsonParts
    /\ \A t \in XmlOwners : t.form = "xml" /\ t.of \subseteq XmlParts
<1>1. \A t \in JsonOwners : t.form = "json" /\ t.of \subseteq JsonParts
  BY DEF JsonOwners, JsonParts, Nests, Aliased,
         ClosedSessionDocumentDto, InternalTransferDto, WriteoffDocumentDto, IdListDto,
         ProductDto, ProductGroupDto, ProductSizeDto, ProductScaleBindingDto,
         ProductScaleDto, QuickMenuDto, ClientPriceCategoryDto, MenuChangeDocumentItemDto,
         MenuChangeDocumentDto, PeriodScheduleDto, EgaisBRegDto, EgaisMarksListResponse,
         OlapPreset, OlapV2RequestBody, PaymentRecord, CashShiftPayments, AssemblyChartDto
<1>2. \A t \in {JurPersonAdditionalPropertiesDto, IncomingInventoryDto, IncomingInvoiceDto,
        OutgoingInvoiceDto, ProductionDocumentDto, ReturnedInvoiceDto,
        SalesDocumentDto, EdiMessageHeaderDto, QuantityDto, InvoiceItemDto,
        InvoiceDto, OrderItemDto, OrderDto} :
        t.form = "xml" /\ t.of \subseteq XmlParts
  BY DEF XmlParts, Nests, Aliased, JurPersonAdditionalPropertiesDto,
         IncomingInventoryDto, IncomingInvoiceDto, OutgoingInvoiceDto,
         ProductionDocumentDto, ReturnedInvoiceDto, SalesDocumentDto,
         EdiMessageHeaderDto, QuantityDto, InvoiceItemDto, InvoiceDto, OrderItemDto,
         OrderDto
<1>3. \A t \in {OrderResponseItemDto, OrderResponseDto, EdiMessageDto, EventDto, EventsListDto,
        ProductDtoXML, DeliveryCourierRow, DeliveryHalfHourRow, DeliveryLoyaltyRow,
        StoreReportPreset, EmployeeDto, WaiterTeamAssignmentsDto} :
        t.form = "xml" /\ t.of \subseteq XmlParts
  BY DEF XmlParts, Nests, Aliased, OrderResponseItemDto, OrderResponseDto,
         EdiMessageDto, EventDto, EventsListDto, ProductDtoXML, DeliveryCourierRow,
         DeliveryHalfHourRow, DeliveryLoyaltyRow, StoreReportPreset, EmployeeDto,
         WaiterTeamAssignmentsDto
<1> QED
  BY <1>1, <1>2, <1>3 DEF XmlOwners

\* What is nested is a type of the repository.
LEMMA PartsAreTypes ==
    /\ \A u \in JsonParts : u \in Types /\ u.form = "json"
    /\ \A u \in XmlParts : u \in Types /\ u.form = "xml"
<1>1. JsonParts \cup XmlParts \subseteq Types
  BY DEF JsonParts, XmlParts, Types
<1>2. \A u \in JsonParts : u.form = "json"
  BY DEF JsonParts, Dto, Nests, Aliased,
         ClosedSessionItemDto, SessionRefDto, InternalTransferItemDto,
         WriteoffDocumentItemDto, IdListItemDto, BarcodeContainerDto, ChoiceBindingDto,
         ContainerDto__nomenclature, RGBColorDto, ProductSizeFactorDto, ProductSizeDto,
         QuickLabelDto, PricingStrategyDto, IncludeForCategoryDto, PriceForCategoryDto,
         MenuChangeDocumentItemDto, PeriodScheduleItemDto, EgaisMarkStateDto, EgaisBRegDto,
         OlapFilter, TransactionInfo, PaymentRecord, AssemblyChartItem
<1>3. \A u \in XmlParts : u.form = "xml"
  BY DEF XmlParts, Dto, Nests, Aliased,
         LegalAddressDto, OfficialEmployeeDto, IncomingInventoryItemDto,
         IncomingInvoiceItemDto, OutgoingInvoiceItemDto, ProductionDocumentItemDto,
         ReturnedInvoiceItemDto, SalesDocumentItemDto, ContractorDto, ContainerDto__edi,
         QuantityDto, DeliveryInfoDto, DocumentIdentifierDto, InvoiceItemDto, OrderItemDto,
         OrderResponseItemDto, EdiMessageHeaderDto, InvoiceDto, OrderDto, OrderResponseDto,
         EventAttributeDto, EventDto, BarcodeContainerDtoXML, ContainerDtoXML,
         DeliveryCourierMetric, DeliveryHalfHourMetric, DeliveryLoyaltyRegion, KeyValue,
         StoreOperationsReportGrouping, StoreReportPresetFilter, PublicExternalDataEntryDto,
         AssignmentEntryDto
<1> QED
  BY <1>1, <1>2, <1>3

\* A codec is one of two all the way down.
LEMMA SameForm ==
    ASSUME NEW t \in Types
    PROVE  t.of \subseteq {u \in Types : u.form = t.form}
<1>1. CASE t \in JsonOwners
  BY <1>1, OwnersNest, PartsAreTypes
<1>2. CASE t \in XmlOwners
  BY <1>2, OwnersNest, PartsAreTypes
<1>3. CASE t \notin JsonOwners \cup XmlOwners
  BY <1>3, OthersNestNone
<1> QED
  BY <1>1, <1>2, <1>3

-----------------------------------------------------------------------------
(* The methods.                                                            *)

Writers ==
  {UpdateProduct, UpdateGroup, UpdateProductScale, UpdateQuickMenu, SaveMenuChange, SaveChart,
   UpdateOrder, writeSchedule, writeAttendance, ReplaceEmployee, UpdateEmployee,
   ReplaceWaiterTeamByCode, ReplaceAssignments, ImportIncomingInvoice, ImportOutgoingInvoice}

(* What lies below the types that are written, but for the quick menu.     *)
JsonWritten ==
  {BarcodeContainerDto, ChoiceBindingDto, ContainerDto__nomenclature, RGBColorDto, ProductSizeDto,
   ProductSizeFactorDto, MenuChangeDocumentItemDto, IncludeForCategoryDto, PriceForCategoryDto,
   AssemblyChartItem}
XmlWritten ==
  {ContractorDto, DeliveryInfoDto, OrderItemDto, QuantityDto, ContainerDto__edi,
   PublicExternalDataEntryDto, AssignmentEntryDto, IncomingInvoiceItemDto, OutgoingInvoiceItemDto}

\* A set that holds what its members nest, and what a type nests, holds all below the type.
LEMMA BelowWithin ==
    ASSUME NEW type, NEW S, type.of \subseteq S, \A u \in S : u.of \subseteq S
    PROVE  Below(type) \subseteq S
  BY DEF Below

\* The absence of a nested type has no cells and no second spellings.
LEMMA NoTypeIsEmpty ==
    NoType.marks = {} /\ NoType.aliased = {} /\ NoType.form = "none"
  BY DEF NoType, Dto, Nests, Aliased

\* Every method moves a type of the repository.
LEMMA MethodTypes ==
    ASSUME NEW m \in Methods
    PROVE  /\ m.type \in Types
           /\ m.verb # "read" => m \in Writers
<1>1. CASE m \in Writers
  BY <1>1 DEF Writers, Types, Method, UpdateProduct, UpdateGroup, UpdateProductScale,
         UpdateQuickMenu, SaveMenuChange, SaveChart, UpdateOrder, writeSchedule, writeAttendance,
         ReplaceEmployee, UpdateEmployee, ReplaceWaiterTeamByCode, ReplaceAssignments,
         ImportIncomingInvoice, ImportOutgoingInvoice
<1>2. CASE m \notin Writers
  <2>1. PICK type \in Types : m = ReadOnly(type)
    BY <1>2 DEF Methods, Writers
  <2> QED
    BY <2>1 DEF ReadOnly, Method
<1> QED
  BY <1>1, <1>2

\* What is looked at below a type has the type's codec.
LEMMA LookedAt ==
    ASSUME NEW m \in Methods, NEW n \in Looked(m.type)
    PROVE  /\ n \in Types \cup {NoType}
           /\ n = NoType \/ (n \in Below(m.type) /\ n.form = m.type.form)
<1> DEFINE S == {u \in Types : u.form = m.type.form}
<1>1. m.type \in Types
  BY MethodTypes
<1>2. m.type.of \subseteq S
  BY <1>1, SameForm
<1>3. \A u \in S : u.of \subseteq S
  BY SameForm
<1>4. Below(m.type) \subseteq S
  <2> HIDE DEF S
  <2> QED
    BY <1>2, <1>3, BelowWithin
<1> QED
  BY <1>4 DEF Looked

Days == {"day", "byDay"}

\* What is written as JSON nests types that can be written too.
LEMMA JsonWrittenShape ==
    \A u \in JsonWritten :
      u.of \subseteq JsonWritten /\ ~(u.marks \subseteq Generated) /\ u.marks \cap Days = {}
  BY DEF JsonWritten, Generated, Days, Dto, Nests, Aliased, BarcodeContainerDto, ChoiceBindingDto,
         ContainerDto__nomenclature, RGBColorDto, ProductSizeDto, ProductSizeFactorDto,
         MenuChangeDocumentItemDto, IncludeForCategoryDto, PriceForCategoryDto,
         AssemblyChartItem

\* So does what is written as XML, and none of these types has an id that a caller may send.
LEMMA XmlWrittenShape ==
    \A u \in XmlWritten :
      /\ u.of \subseteq XmlWritten
      /\ ~(u.marks \subseteq Generated) /\ "key" \notin u.marks /\ u.marks \cap Days = {}
  BY DEF XmlWritten, Generated, Days, Dto, Nests, Aliased, ContractorDto, DeliveryInfoDto,
         OrderItemDto, QuantityDto, ContainerDto__edi, PublicExternalDataEntryDto,
         AssignmentEntryDto, IncomingInvoiceItemDto, OutgoingInvoiceItemDto

\* A written type is not a mere response, and has the id that its method finds the entity by.
LEMMA WriterShape ==
    ASSUME NEW m \in Writers
    PROVE  /\ ~(m.type.marks \subseteq Generated)
           /\ m = UpdateQuickMenu \/ m.type.marks \cap Days = {}
           /\ \/ m.type.form = "json" /\ m.verb # "form" /\ m # UpdateOrder
                 /\ (m = UpdateQuickMenu \/ m.type.of \subseteq JsonWritten)
              \/ m.type.form = "xml" /\ m.type.of \subseteq XmlWritten /\ m.type.aliased = {}
                 /\ m # UpdateQuickMenu
           /\ m.byBody => m.verb # "form" /\ ("key" \in m.type.marks \/ m = UpdateQuickMenu)
<1> USE DEF Generated, Days, Method
<1>1. CASE m = UpdateProduct
  BY <1>1 DEF UpdateOrder, OrderDto, UpdateProduct, UpdateQuickMenu, ProductDto, JsonWritten, Nests, Aliased
<1>2. CASE m = UpdateGroup
  BY <1>2 DEF UpdateOrder, OrderDto, UpdateGroup, ProductGroupDto, JsonWritten, Nests, Aliased
<1>3. CASE m = UpdateProductScale
  BY <1>3 DEF UpdateOrder, OrderDto, UpdateProductScale, ProductScaleDto, JsonWritten, Nests, Aliased
<1>4. CASE m = UpdateQuickMenu
  BY <1>4 DEF UpdateOrder, OrderDto, UpdateQuickMenu, QuickMenuDto, JsonWritten, Nests, Aliased
<1>5. CASE m = SaveMenuChange
  BY <1>5 DEF UpdateOrder, OrderDto, SaveMenuChange, MenuChangeDocumentDto, JsonWritten, Nests, Aliased
<1>6. CASE m = SaveChart
  BY <1>6 DEF UpdateOrder, OrderDto, SaveChart, AssemblyChartDto, JsonWritten, Nests, Aliased
<1>7. CASE m = UpdateOrder
  BY <1>7 DEF UpdateOrder, OrderDto, UpdateQuickMenu, QuickMenuDto, XmlWritten, Nests, Aliased
<1>8. CASE m = writeSchedule
  BY <1>8 DEF writeSchedule, ScheduleDto, UpdateQuickMenu, QuickMenuDto, XmlWritten, Dto, Nests, Aliased
<1>9. CASE m = writeAttendance
  BY <1>9 DEF writeAttendance, AttendanceDto, UpdateQuickMenu, QuickMenuDto, XmlWritten, Dto, Nests, Aliased
<1>10. CASE m = ReplaceEmployee
  BY <1>10 DEF ReplaceEmployee, EmployeeDto, UpdateQuickMenu, QuickMenuDto, XmlWritten, Nests, Aliased
<1>11. CASE m = UpdateEmployee
  BY <1>11 DEF UpdateEmployee, EmployeeDto, UpdateQuickMenu, QuickMenuDto, XmlWritten, Nests, Aliased
<1>12. CASE m = ReplaceWaiterTeamByCode
  BY <1>12 DEF ReplaceWaiterTeamByCode, WaiterTeamDto, UpdateQuickMenu, QuickMenuDto, XmlWritten, Dto, Nests, Aliased
<1>13. CASE m = ReplaceAssignments
  BY <1>13 DEF ReplaceAssignments, WaiterTeamAssignmentsDto, UpdateQuickMenu, QuickMenuDto, XmlWritten, Nests, Aliased
<1>14. CASE m = ImportIncomingInvoice
  BY <1>14 DEF ImportIncomingInvoice, IncomingInvoiceDto, UpdateQuickMenu, QuickMenuDto, XmlWritten, Nests, Aliased
<1>15. CASE m = ImportOutgoingInvoice
  BY <1>15 DEF ImportOutgoingInvoice, OutgoingInvoiceDto, UpdateQuickMenu, QuickMenuDto, XmlWritten, Nests, Aliased
<1> QED
  BY <1>1, <1>2, <1>3, <1>4, <1>5, <1>6, <1>7, <1>8, <1>9, <1>10, <1>11, <1>12, <1>13, <1>14,
     <1>15 DEF Writers

\* The quick menu is an update whose id is a read-only field.
LEMMA QuickMenuShape ==
    /\ UpdateQuickMenu.type.of = {QuickLabelDto}
    /\ QuickLabelDto.of = {} /\ ~(QuickLabelDto.marks \subseteq Generated)
    /\ UpdateQuickMenu.verb = "update"
    /\ UpdateQuickMenu.type.form = "json"
    /\ {"serverKey", "byDay"} \subseteq UpdateQuickMenu.type.marks
    /\ "day" \notin UpdateQuickMenu.type.marks
  BY DEF UpdateQuickMenu, Method, QuickMenuDto, QuickLabelDto, Generated, Dto, Nests, Aliased

\* So it is with what is looked at below it.
LEMMA NestedShape ==
    ASSUME NEW m \in Writers, NEW n \in Looked(m.type)
    PROVE  /\ n = NoType \/ ~(n.marks \subseteq Generated)
           /\ m.type.form = "xml" => "key" \notin n.marks
           /\ m = UpdateQuickMenu \/ n.marks \cap Days = {}
<1>0. CASE m = UpdateQuickMenu
  <2>1. Below(m.type) \subseteq {QuickLabelDto}
    BY <1>0, QuickMenuShape, BelowWithin
  <2> QED
    BY <1>0, <2>1, QuickMenuShape DEF Looked
<1>1. CASE m.type.form = "json" /\ m # UpdateQuickMenu
  <2>1. m.type.of \subseteq JsonWritten
    BY <1>1, WriterShape
  <2>2. Below(m.type) \subseteq JsonWritten
    BY <2>1, JsonWrittenShape, BelowWithin
  <2> QED
    BY <1>1, <2>2, JsonWrittenShape, NoTypeIsEmpty DEF Looked
<1>2. CASE m.type.form = "xml"
  <2>1. m.type.of \subseteq XmlWritten
    BY <1>2, WriterShape
  <2>2. Below(m.type) \subseteq XmlWritten
    BY <2>1, XmlWrittenShape, BelowWithin
  <2> QED
    BY <1>2, <2>2, XmlWrittenShape, NoTypeIsEmpty DEF Looked
<1> QED
  BY <1>0, <1>1, <1>2, WriterShape

\* The order is an update, too.
LEMMA OrderShape ==
    UpdateOrder.verb = "update"
  BY DEF UpdateOrder, Method

-----------------------------------------------------------------------------
(* The codec.                                                              *)

\* A cell is a mark of the type itself or of the nested type; NoCopy is none.
LEMMA CellShape ==
    ASSUME TypeOK, NEW cell \in Cells
    PROVE  /\ cell # NoCopy
           /\ cell[2] \in TypeAt(cell).marks
           /\ \/ cell[1] = "own" /\ cell = Own(cell[2]) /\ TypeAt(cell) = method.type
              \/ cell[1] = "nested" /\ cell = Nested(cell[2]) /\ TypeAt(cell) = nested /\ nested # NoType
           /\ TypeAt(cell).form = method.type.form
<1>1. /\ method \in Methods
      /\ nested \in Looked(method.type)
  BY DEF TypeOK
<1>2. /\ method.type \in Types \cup {NoType}
      /\ nested \in Types \cup {NoType}
  BY <1>1, MethodTypes, LookedAt
<1>3. cell # NoCopy
  BY <1>2, NoCopyAssumption DEF Cells
<1>4. CASE cell \in {"own"} \X method.type.marks
  BY <1>3, <1>4 DEF TypeAt, Own
<1>5. CASE cell \in {"nested"} \X nested.marks
  <2>1. nested # NoType
    BY <1>5, NoTypeIsEmpty
  <2> QED
    BY <1>1, <1>3, <1>5, <2>1, LookedAt DEF TypeAt, Nested
<1> QED
  BY <1>4, <1>5 DEF Cells, CellsOf

\* NoCopy is not an entity.
LEMMA NoEntityIsNoCopy ==
    ASSUME TypeOK
    PROVE  NoCopy \notin [Cells -> Values]
<1>1. /\ method.type \in Types \cup {NoType}
      /\ nested \in Types \cup {NoType}
  BY MethodTypes, LookedAt DEF TypeOK
<1> QED
  BY <1>1, NoCopyAssumption DEF Cells

\* A cell of a given mark is there when the type has the mark.
LEMMA MarkedCells ==
    /\ \A mark : Own(mark) \in Cells <=> mark \in method.type.marks
    /\ \A mark : Nested(mark) \in Cells <=> mark \in nested.marks
    /\ \A mark : Own(mark)[1] = "own" /\ Own(mark)[2] = mark
    /\ \A mark : Nested(mark)[1] = "nested" /\ Nested(mark)[2] = mark
  BY DEF Own, Nested, Cells, CellsOf

\* What is read is what the server holds, but for a second spelling that an XML type misses.
LEMMA DecodedIsEntity ==
    ASSUME TypeOK, NEW spelling \in Spellings
    PROVE  /\ Decoded(spelling) \in [Cells -> Values]
           /\ \A cell \in Cells : \/ Decoded(spelling)[cell] = entity[cell]
                                  \/ Unread(cell, Decoded(spelling)[cell])
<1>1. entity \in [Cells -> Values] /\ 0 \in Values
  BY DEF TypeOK, Values
<1>2. Decoded(spelling) \in [Cells -> Values]
  BY <1>1 DEF Decoded, Unmarshal
<1>3. ASSUME NEW cell \in Cells
      PROVE  \/ Decoded(spelling)[cell] = entity[cell]
             \/ Unread(cell, Decoded(spelling)[cell])
  <2>1. CASE TypeAt(cell).form = "json"
    BY <1>1, <2>1 DEF Decoded, Unmarshal, Spellings
  <2>2. CASE TypeAt(cell).form # "json" /\ cell[2] \in TypeAt(cell).aliased
    <3>1. Decoded(spelling)[cell] \in {entity[cell], 0}
      BY <2>2 DEF Decoded, Unmarshal
    <3> QED
      BY <2>2, <3>1 DEF Unread
  <2>3. CASE cell[2] \notin TypeAt(cell).aliased
    BY <2>3 DEF Decoded
  <2> QED
    BY <2>1, <2>2, <2>3
<1> QED
  BY <1>2, <1>3

\* What a caller is about to send: the copy it holds, of which it edited a writable cell.
LEMMA CopyInHand ==
    ASSUME IInv, NEW c \in Callers, copy[c] # NoCopy, edit[c] # NoCopy
    PROVE  /\ method \in Writers /\ nested \in Looked(method.type)
           /\ copy[c] \in [Cells -> Values] /\ taken[c] \in [Cells -> Values]
           /\ edit[c] \in Cells /\ Editable(edit[c]) /\ ~ReadOnlyCell(edit[c]) /\ ~Id(edit[c])
           /\ \A cell \in Cells \ {edit[c]} :
                ReadOnlyCell(cell) \/ copy[c][cell] = taken[c][cell] \/ Unread(cell, copy[c][cell])
           /\ \A cell \in Cells : cell[2] = "key" => copy[c][cell] = 1
           /\ method = UpdateQuickMenu => copy[c][Own("serverKey")] = 1
<1>1. method.verb # "read" /\ Editable(edit[c]) /\ taken[c] # NoCopy
  BY DEF IInv, CopyKept
<1>2. method \in Writers /\ nested \in Looked(method.type)
  BY <1>1, MethodTypes DEF IInv, TypeOK
<1>3. /\ copy[c] \in [Cells -> Values]
      /\ taken[c] \in [Cells -> Values]
      /\ edit[c] \in Cells
  BY <1>1 DEF IInv, TypeOK
<1>4. ~ReadOnlyCell(edit[c]) /\ ~Id(edit[c])
  BY <1>1 DEF Editable, ReadOnlyCell, Generated, Id
<1>5. \A cell \in Cells \ {edit[c]} :
        \/ copy[c][cell] = taken[c][cell]
        \/ Unread(cell, copy[c][cell])
        \/ ReadOnlyCell(cell) /\ method.type.form = "xml"
  BY <1>1 DEF IInv, CopyKept
<1>6. \A cell \in Cells : Id(cell) => taken[c][cell] = 1
  BY <1>1 DEF IInv, IdsKept, HasIds
<1>7. ASSUME NEW cell \in Cells, cell[2] = "key"
      PROVE  copy[c][cell] = 1
  <2>1. Id(cell) /\ ~ReadOnlyCell(cell) /\ cell # edit[c]
    BY <1>4, <1>7 DEF Id, ReadOnlyCell, Generated
  <2>2. ~Unread(cell, copy[c][cell])
    <3>1. CASE method.type.form = "json"
      BY <3>1, CellShape DEF IInv, Unread
    <3>2. CASE method.type.form # "json"
      <4>1. method.type.form = "xml" /\ method.type.aliased = {} /\ "key" \notin nested.marks
        BY <1>2, <3>2, WriterShape, NestedShape
      <4>2. TypeAt(cell) = method.type
        BY <1>7, <4>1, CellShape DEF IInv
      <4> QED
        BY <4>1, <4>2 DEF Unread
    <3> QED
      BY <3>1, <3>2
  <2> QED
    BY <1>5, <1>6, <2>1, <2>2
<1>8. ASSUME method = UpdateQuickMenu
      PROVE  copy[c][Own("serverKey")] = 1
  <2>1. /\ Own("serverKey") \in Cells /\ Id(Own("serverKey")) /\ Own("serverKey") # edit[c]
        /\ method.type.form = "json"
    BY <1>4, <1>8, QuickMenuShape, MarkedCells DEF Id
  <2>2. ~Unread(Own("serverKey"), copy[c][Own("serverKey")])
    BY <2>1, CellShape DEF IInv, Unread
  <2> QED
    BY <1>5, <1>6, <2>1, <2>2
<1> QED
  BY <1>1, <1>2, <1>3, <1>4, <1>5, <1>7, <1>8

\* The codec of a written type leaves out, or is able to zero, what the server generates.
LEMMA OmittedIsReadOnly ==
    ASSUME TypeOK, method \in Writers, NEW cell \in Cells
    PROVE  Omits(TypeAt(cell), cell) <=> ReadOnlyCell(cell)
<1>1. nested \in Looked(method.type)
  BY DEF TypeOK
<1>2. ~(TypeAt(cell).marks \subseteq Generated)
  BY <1>1, CellShape, WriterShape, NestedShape
<1>3. cell[2] \in TypeAt(cell).marks
  BY CellShape
<1> QED
  BY <1>2, <1>3 DEF Omits, Partly, ReadOnlyCell

\* The day that a label is not given.
NoDay(v, cell) == cell = Nested("day") /\ Dayless(v)

\* A menu says whether it depends on the day of the week, and a label what day it is for.
LEMMA DaysCarried ==
    ASSUME IInv, NEW c \in Callers, copy[c] # NoCopy, edit[c] # NoCopy, edit[c][2] \in Days
    PROVE  edit[c] \in DOMAIN Body(c)
<1>1. method \in Writers /\ nested \in Looked(method.type) /\ edit[c] \in Cells /\ TypeOK
  BY CopyInHand DEF IInv
<1>2. method = UpdateQuickMenu
  BY <1>1, CellShape, WriterShape, NestedShape
<1>3. edit[c] = Own("byDay") \/ (edit[c][1] = "nested" /\ ~ReadOnlyCell(edit[c]))
        \/ edit[c] = Own("day")
  BY <1>1, CellShape DEF Days, ReadOnlyCell, Generated
<1>4. edit[c] # Own("day")
  BY <1>1, <1>2, MarkedCells, QuickMenuShape
<1>5. DOMAIN Body(c) = {cell \in Cells :
                         \/ cell \in {Own("serverKey"), Own("byDay")}
                         \/ cell[1] = "own" /\ Written(cell, copy[c][cell]) /\ ~ReadOnlyCell(cell)
                         \/ cell[1] = "nested" /\ ~ReadOnlyCell(cell)}
  <2>1. Body(c) = writeBody(copy[c])
    BY <1>1, <1>2, QuickMenuShape, WriterShape DEF Body
  <2> QED
    BY <2>1 DEF writeBody
<1> QED
  BY <1>1, <1>3, <1>4, <1>5

\* The body of a write, of what may be written: it carries values of the copy; a form carries
\* the edited field alone, anything else every writable field that is required or set; and
\* the quick menu's carries its id.
LEMMA BodyCarries ==
    ASSUME IInv, NEW c \in Callers, copy[c] # NoCopy, edit[c] # NoCopy
    PROVE  /\ DOMAIN Body(c) \subseteq Cells
           /\ Body(c) \in [DOMAIN Body(c) -> Values]
           /\ \A cell \in DOMAIN Body(c) :
                ~ReadOnlyCell(cell) => Body(c)[cell] = copy[c][cell] \/ NoDay(copy[c], cell)
           /\ method.verb = "form" => DOMAIN Body(c) = {edit[c]}
           /\ method.verb # "form" =>
                \A cell \in Cells :
                  Written(cell, copy[c][cell]) /\ ~ReadOnlyCell(cell) => cell \in DOMAIN Body(c)
           /\ method = UpdateQuickMenu =>
                Own("serverKey") \in DOMAIN Body(c) /\ Body(c)[Own("serverKey")] = 1
           /\ \A cell \in Leaks(Body(c)) : method.type.form = "xml" /\ ~ZeroedAt(c, cell)
<1> DEFINE v == copy[c]
<1>1. /\ TypeOK /\ method \in Writers /\ nested \in Looked(method.type)
      /\ v \in [Cells -> Values] /\ 0 \in Values
      /\ edit[c] \in Cells /\ ~ReadOnlyCell(edit[c])
      /\ method = UpdateQuickMenu => v[Own("serverKey")] = 1
  BY CopyInHand DEF IInv, Values
<1>2. CASE method.verb = "form"
  <2>1. Body(c) = Fields(c) /\ method # UpdateQuickMenu
    BY <1>2, QuickMenuShape, OrderShape DEF Body
  <2>2. Body(c) = [cell \in {edit[c]} |-> v[cell]]
    BY <2>1 DEF Fields
  <2> HIDE DEF v
  <2>3. DOMAIN Body(c) = {edit[c]} /\ Body(c)[edit[c]] = v[edit[c]]
    BY <2>2
  <2>4. Body(c) \in [{edit[c]} -> Values]
    BY <1>1, <2>2
  <2> QED
    BY <1>1, <1>2, <2>1, <2>3, <2>4 DEF v, Leaks
<1>3. CASE method = UpdateQuickMenu
  <2>1. Body(c) = writeBody(v) /\ method.verb # "form"
    BY <1>1, <1>3, QuickMenuShape, WriterShape DEF Body
  <2>2. Own("serverKey") \in Cells /\ Own("byDay") \in Cells
    BY <1>3, QuickMenuShape, MarkedCells
  <2> DEFINE out == {cell \in Cells :
                       \/ cell \in {Own("serverKey"), Own("byDay")}
                       \/ cell[1] = "own" /\ Written(cell, v[cell]) /\ ~ReadOnlyCell(cell)
                       \/ cell[1] = "nested" /\ ~ReadOnlyCell(cell)}
  <2>3. Body(c) = [cell \in out |-> IF cell = Nested("day") /\ v[Own("byDay")] = 0 THEN 0 ELSE v[cell]]
    BY <2>1 DEF writeBody
  <2>4. \A cell \in Cells : cell[1] \in {"own", "nested"}
    BY <1>1, CellShape
  <2>5. Own("serverKey") # Nested("day") /\ ~ReadOnlyCell(Own("byDay"))
    BY MarkedCells DEF Own, Nested, ReadOnlyCell, Generated
  <2> HIDE DEF v
  <2>6. \A cell \in out : ReadOnlyCell(cell) => cell = Own("serverKey")
    BY <2>5
  <2>7. \A cell \in Cells : Written(cell, v[cell]) /\ ~ReadOnlyCell(cell) => cell \in out
    BY <2>4
  <2>8. out \subseteq Cells /\ Own("serverKey") \in out
    BY <2>2
  <2> HIDE DEF out
  <2>9. DOMAIN Body(c) = out
    BY <2>3
  <2>10. \A cell \in out : Body(c)[cell] = v[cell] \/ (Body(c)[cell] = 0 /\ NoDay(v, cell))
    BY <2>2, <2>3 DEF NoDay, Dayless
  <2>11. Body(c) \in [out -> Values]
    BY <1>1, <2>3, <2>8
  <2>12. Body(c)[Own("serverKey")] = 1
    BY <1>1, <1>3, <2>3, <2>5, <2>8
  <2>13. Leaks(Body(c)) = {}
    BY <1>3, <2>6, <2>9 DEF Leaks, MenuId
  <2> QED
    BY <1>3, <2>1, <2>7, <2>8, <2>9, <2>10, <2>11, <2>12, <2>13 DEF v
<1>4. CASE method.verb # "form" /\ method # UpdateQuickMenu /\ method.type.form = "xml"
  <2> DEFINE w == IF method = UpdateOrder THEN StripReadOnly(v, "own") ELSE v
  <2>1. Body(c) = MarshalXML(w)
    BY <1>4 DEF Body
  <2>2. w \in [Cells -> Values]
    BY <1>1 DEF StripReadOnly
  <2>3. \A cell \in Cells : ~ReadOnlyCell(cell) => w[cell] = v[cell]
    BY <1>1, OmittedIsReadOnly DEF StripReadOnly
  <2>4. \A cell \in Cells : ReadOnlyCell(cell) /\ ZeroedAt(c, cell) => w[cell] = 0
    <3> SUFFICES ASSUME NEW cell \in Cells, ReadOnlyCell(cell), ZeroedAt(c, cell)
                 PROVE  w[cell] = 0
      OBVIOUS
    <3>1. CASE method = UpdateOrder /\ cell[1] = "own"
      BY <1>1, <3>1, OmittedIsReadOnly DEF StripReadOnly
    <3>2. CASE cell[1] \in stripped[c]
      <4>1. v[cell] = 0
        BY <3>2 DEF IInv, CopyKept
      <4> QED
        BY <1>1, <4>1 DEF StripReadOnly
    <3> QED
      BY <3>1, <3>2 DEF ZeroedAt
  <2> HIDE DEF v, w
  <2>5. Body(c) = [cell \in {x \in Cells : Written(x, w[x])} |-> w[cell]]
    BY <2>1 DEF MarshalXML
  <2>6. /\ DOMAIN Body(c) = {cell \in Cells : Written(cell, w[cell])}
        /\ \A cell \in DOMAIN Body(c) : Body(c)[cell] = w[cell]
    BY <2>5
  <2>7. Body(c) \in [DOMAIN Body(c) -> Values]
    BY <2>2, <2>5
  <2>8. \A cell \in DOMAIN Body(c) : ~ReadOnlyCell(cell) => Body(c)[cell] = v[cell]
    BY <2>3, <2>6
  <2>9. \A cell \in Cells : Written(cell, v[cell]) /\ ~ReadOnlyCell(cell) => cell \in DOMAIN Body(c)
    BY <2>3, <2>6
  <2>10. \A cell \in Leaks(Body(c)) : ~ZeroedAt(c, cell)
    BY <2>4, <2>6 DEF Leaks
  <2> QED
    BY <1>4, <2>6, <2>7, <2>8, <2>9, <2>10 DEF v
<1>5. CASE method.verb # "form" /\ method # UpdateQuickMenu /\ method.type.form = "json"
  <2>1. Body(c) = MarshalJSON(v)
    BY <1>1, <1>5, WriterShape DEF Body
  <2> HIDE DEF v
  <2>2. Body(c) = [cell \in {x \in Cells : Written(x, v[x]) /\ ~Omits(TypeAt(x), x)} |-> v[cell]]
    BY <2>1 DEF MarshalJSON
  <2>3. /\ DOMAIN Body(c) = {cell \in Cells : Written(cell, v[cell]) /\ ~Omits(TypeAt(cell), cell)}
        /\ \A cell \in DOMAIN Body(c) : Body(c)[cell] = v[cell]
    BY <2>2
  <2>4. Body(c) \in [DOMAIN Body(c) -> Values]
    BY <1>1, <2>2
  <2>5. \A cell \in Cells : Omits(TypeAt(cell), cell) <=> ReadOnlyCell(cell)
    BY <1>1, OmittedIsReadOnly
  <2>6. Leaks(Body(c)) = {}
    BY <2>3, <2>5 DEF Leaks
  <2> QED
    BY <1>5, <2>3, <2>4, <2>5, <2>6 DEF v
<1> QED
  BY <1>1, <1>2, <1>3, <1>4, <1>5, WriterShape

\* A body finds its entity, and no element of it passes for a new one.
LEMMA BodyArrives ==
    ASSUME IInv, NEW c \in Callers, copy[c] # NoCopy, edit[c] # NoCopy
    PROVE  /\ Addressed(Body(c))
           /\ \A cell \in Cells : ~IsNew(Body(c), cell)
<1>1. /\ method \in Writers /\ nested \in Looked(method.type) /\ edit[c] \in Cells
      /\ \A cell \in Cells : cell[2] = "key" => copy[c][cell] = 1
  BY CopyInHand
<1>2. ASSUME method.verb # "form", NEW cell \in Cells, cell[2] = "key"
      PROVE  Carries(Body(c), cell)
  <2>1. ~ReadOnlyCell(cell) /\ cell # Nested("day") /\ copy[c][cell] = 1
    BY <1>1, <1>2 DEF ReadOnlyCell, Generated, Nested
  <2>2. Written(cell, copy[c][cell])
    BY <2>1 DEF Written
  <2>3. cell \in DOMAIN Body(c) /\ Body(c)[cell] = 1
    BY <1>2, <2>1, <2>2, BodyCarries DEF NoDay
  <2> QED
    BY <2>3 DEF Carries
<1>3. Addressed(Body(c))
  <2>1. CASE ~method.byBody
    BY <2>1 DEF Addressed
  <2>2. CASE method.byBody /\ "key" \in method.type.marks
    <3>1. Own("key") \in Cells /\ method.verb # "form"
      BY <1>1, <2>2, MarkedCells, WriterShape
    <3>2. Carries(Body(c), Own("key"))
      BY <1>2, <3>1, MarkedCells
    <3> QED
      BY <3>1, <3>2 DEF Addressed
  <2>3. CASE method = UpdateQuickMenu
    <3>1. Own("serverKey") \in Cells
      BY <2>3, QuickMenuShape, MarkedCells
    <3>2. Own("serverKey") \in DOMAIN Body(c) /\ Body(c)[Own("serverKey")] = 1
      BY <2>3, BodyCarries
    <3>3. Carries(Body(c), Own("serverKey"))
      BY <3>2 DEF Carries
    <3> QED
      BY <3>1, <3>3 DEF Addressed
  <2> QED
    BY <1>1, <2>1, <2>2, <2>3, WriterShape
<1>4. ASSUME NEW cell \in Cells
      PROVE  ~IsNew(Body(c), cell)
  <2>1. CASE Nested("key") \notin Cells
    BY <2>1 DEF IsNew
  <2>2. CASE Nested("key") \in Cells
    <3>1. "key" \in nested.marks
      BY <2>2, MarkedCells
    <3>2. method.verb # "form"
      BY <1>1, <3>1, WriterShape, NestedShape
    <3>3. Carries(Body(c), Nested("key"))
      BY <1>2, <2>2, <3>2, MarkedCells
    <3> QED
      BY <3>3 DEF IsNew
  <2> QED
    BY <2>1, <2>2
<1> QED
  BY <1>3, <1>4

\* What the server makes of a body: a field of it that it may be given has the value of the
\* copy, or, left out, is kept or cleared; what it generates stays.
LEMMA BodyAccepted ==
    ASSUME IInv, NEW c \in Callers, copy[c] # NoCopy, edit[c] # NoCopy, NEW cell \in Cells
    PROVE  /\ Accepted(Body(c), cell) \in Values
           /\ ReadOnlyCell(cell) => Accepted(Body(c), cell) = entity[cell]
           /\ ~ReadOnlyCell(cell) /\ cell \in DOMAIN Body(c) =>
                Accepted(Body(c), cell) = copy[c][cell] \/ NoDay(copy[c], cell)
           /\ ~ReadOnlyCell(cell) /\ cell \notin DOMAIN Body(c) =>
                Accepted(Body(c), cell) = IF keeps THEN entity[cell] ELSE 0
<1>1. ~IsNew(Body(c), cell)
  BY BodyArrives
<1>2. /\ cell \in DOMAIN Body(c) => Body(c)[cell] \in Values
      /\ cell \in DOMAIN Body(c) /\ ~ReadOnlyCell(cell) =>
           Body(c)[cell] = copy[c][cell] \/ NoDay(copy[c], cell)
  BY BodyCarries
<1>3. entity[cell] \in Values /\ 0 \in Values
  BY DEF IInv, TypeOK, Values
<1> QED
  BY <1>1, <1>2, <1>3 DEF Accepted, LeftOut

-----------------------------------------------------------------------------
(* The callers.                                                            *)

\* The cells are those of the method, which a run keeps.
LEMMA CellsKept ==
    ASSUME UNCHANGED <<method, nested>>
    PROVE  Cells' = Cells
  BY DEF Cells

\* Before anybody reads, there is nothing to keep but the ids.
LEMMA InitIInv == Init => IInv
<1> SUFFICES ASSUME Init PROVE IInv
  OBVIOUS
<1>1. entity \in [Cells -> Values]
  BY DEF Init, Entities, Values
<1>2. TypeOK
  BY <1>1 DEF Init, TypeOK
<1>3. IdsKept
  BY DEF Init, Entities, IdsKept, HasIds
<1>4. CopyKept /\ NothingReadOnlySent
  BY DEF Init, CopyKept, NothingReadOnlySent
<1> QED
  BY <1>2, <1>3, <1>4 DEF IInv

\* What CopyKept says of one caller.
Kept(c) ==
  /\ taken[c] = NoCopy =>
       copy[c] = NoCopy /\ edit[c] = NoCopy /\ sent[c] = NoCopy /\ stripped[c] = {}
  /\ edit[c] # NoCopy => method.verb # "read" /\ Editable(edit[c])
  /\ stripped[c] # {} => method.type.form = "xml"
  /\ copy[c] # NoCopy =>
       /\ sent[c] = NoCopy
       /\ \A cell \in Cells \ {edit[c]} :
            \/ copy[c][cell] = taken[c][cell]
            \/ Unread(cell, copy[c][cell])
            \/ ReadOnlyCell(cell) /\ method.type.form = "xml"
       /\ \A cell \in Cells : ReadOnlyCell(cell) /\ cell[1] \in stripped[c] => copy[c][cell] = 0

\* A caller whose copy stays, or goes, keeps what it had.
LEMMA OthersKept ==
    ASSUME IInv, NEW c \in Callers, UNCHANGED <<method, nested>>,
           copy'[c] \in {copy[c], NoCopy},
           taken'[c] = taken[c], edit'[c] = edit[c], stripped'[c] = stripped[c],
           sent'[c] = sent[c]
    PROVE  Kept(c)'
<1>1. Kept(c)
  BY DEF IInv, CopyKept, Kept
<1>2. Cells' = Cells
  BY CellsKept
<1> QED
  BY <1>1, <1>2 DEF Kept, Editable, Unread, TypeAt, ReadOnlyCell

\* Nothing of what was sent comes back to be looked at again.
LEMMA SentKept ==
    ASSUME IInv, UNCHANGED <<method, nested, sent>>,
           \A c \in Callers : stripped'[c] = stripped[c] \/ sent[c] = NoCopy
    PROVE  NothingReadOnlySent'
  BY DEF IInv, NothingReadOnlySent, Leaks, MenuId, ZeroedAt, ReadOnlyCell

\* Whatever spelling the server uses, the caller then holds what its type reads of it.
LEMMA ReadKeeps ==
    ASSUME IInv, NEW c \in Callers, Read(c)
    PROVE  IInv' /\ copy'[c] # NoCopy
<1> USE DEF IInv
<1>1. /\ taken[c] = NoCopy /\ taken' = [taken EXCEPT ![c] = entity]
      /\ UNCHANGED <<method, nested, keeps, entity, edit, stripped, sent>>
  BY DEF Read
<1>2. PICK spelling \in Spellings : copy' = [copy EXCEPT ![c] = Decoded(spelling)]
  BY DEF Read
<1>3. Cells' = Cells
  BY <1>1, CellsKept
<1>4. /\ Decoded(spelling) \in [Cells -> Values]
      /\ \A cell \in Cells : \/ Decoded(spelling)[cell] = entity[cell]
                             \/ Unread(cell, Decoded(spelling)[cell])
  BY DecodedIsEntity
<1>5. entity \in [Cells -> Values] /\ NoCopy \notin [Cells -> Values]
  BY NoEntityIsNoCopy DEF TypeOK
<1>6. TypeOK'
  BY <1>1, <1>2, <1>3, <1>4, <1>5 DEF TypeOK, Messages
<1>7. IdsKept'
  BY <1>1, <1>3 DEF IdsKept, HasIds, TypeOK
<1>8. CopyKept'
  <2> SUFFICES ASSUME NEW d \in Callers PROVE Kept(d)'
    BY DEF CopyKept, Kept
  <2>1. CASE d = c
    <3>1. copy'[c] = Decoded(spelling) /\ taken'[c] = entity /\ edit'[c] = NoCopy
      BY <1>1, <1>2 DEF TypeOK, CopyKept
    <3>2. stripped[c] = {} /\ sent[c] = NoCopy
      BY <1>1 DEF CopyKept
    <3> QED
      BY <1>1, <1>3, <1>4, <1>5, <2>1, <3>1, <3>2 DEF Kept, Unread, TypeAt
  <2>2. CASE d # c
    <3>1. copy'[d] = copy[d] /\ taken'[d] = taken[d]
      BY <1>1, <1>2, <2>2 DEF TypeOK
    <3> QED
      BY <1>1, <3>1, OthersKept
  <2> QED
    BY <2>1, <2>2
<1>9. NothingReadOnlySent'
  BY <1>1, SentKept
<1> QED
  BY <1>2, <1>4, <1>5, <1>6, <1>7, <1>8, <1>9 DEF TypeOK

\* An edit is one of a writable field, and the copy stays what was read elsewhere.
LEMMA EditKeeps ==
    ASSUME IInv, NEW c \in Callers, Edit(c)
    PROVE  IInv' /\ copy'[c] # NoCopy
<1> USE DEF IInv
<1>1. /\ method.verb # "read" /\ copy[c] # NoCopy /\ edit[c] = NoCopy
      /\ UNCHANGED <<method, nested, keeps, entity, taken, stripped, sent>>
  BY DEF Edit
<1>2. PICK cell \in Cells, v \in Values :
        /\ Editable(cell)
        /\ copy' = [copy EXCEPT ![c][cell] = v]
        /\ edit' = [edit EXCEPT ![c] = cell]
  BY DEF Edit
<1>3. Cells' = Cells
  BY <1>1, CellsKept
<1>4. /\ copy[c] \in [Cells -> Values]
      /\ NoCopy \notin [Cells -> Values]
  BY <1>1, NoEntityIsNoCopy DEF TypeOK
<1>5. /\ copy'[c] = [copy[c] EXCEPT ![cell] = v] /\ edit'[c] = cell
      /\ \A d \in Callers \ {c} : copy'[d] = copy[d] /\ edit'[d] = edit[d]
  BY <1>2 DEF TypeOK
<1>6. copy'[c] \in [Cells -> Values]
  BY <1>4, <1>5
<1>7. TypeOK'
  BY <1>1, <1>2, <1>3, <1>6 DEF TypeOK, Messages
<1>8. IdsKept'
  BY <1>1, <1>3 DEF IdsKept, HasIds
<1>9. CopyKept'
  <2> SUFFICES ASSUME NEW d \in Callers PROVE Kept(d)'
    BY DEF CopyKept, Kept
  <2>1. CASE d = c
    <3>1. Kept(c) /\ \A other \in Cells : other # NoCopy
      BY CellShape DEF CopyKept, Kept
    <3>2. ~ReadOnlyCell(cell)
      BY <1>2 DEF Editable, ReadOnlyCell, Generated
    <3>3. \A other \in Cells \ {cell} : copy'[c][other] = copy[c][other]
      BY <1>4, <1>5
    <3> QED
      BY <1>1, <1>2, <1>3, <1>5, <2>1, <3>1, <3>2, <3>3
         DEF Kept, Editable, Unread, TypeAt, ReadOnlyCell
  <2>2. CASE d # c
    <3>1. copy'[d] = copy[d] /\ edit'[d] = edit[d]
      BY <1>5, <2>2
    <3> QED
      BY <1>1, <3>1, OthersKept
  <2> QED
    BY <2>1, <2>2
<1>10. NothingReadOnlySent'
  BY <1>1, SentKept
<1> QED
  BY <1>4, <1>6, <1>7, <1>8, <1>9, <1>10

\* StripReadOnly zeroes all that the server generates at its depth, and nothing else.
LEMMA StripKeeps ==
    ASSUME IInv, NEW c \in Callers, Strip(c)
    PROVE  IInv' /\ copy'[c] # NoCopy
<1> USE DEF IInv
<1>1. /\ method.verb \notin {"read", "form"} /\ copy[c] # NoCopy
      /\ UNCHANGED <<method, nested, keeps, entity, taken, edit, sent>>
  BY DEF Strip
<1>2. PICK depth \in {"own", "nested"} \ stripped[c] :
        /\ (IF depth = "own" THEN method.type ELSE nested).form = "xml"
        /\ copy' = [copy EXCEPT ![c] = StripReadOnly(copy[c], depth)]
        /\ stripped' = [stripped EXCEPT ![c] = @ \cup {depth}]
  BY DEF Strip
<1>3. Cells' = Cells
  BY <1>1, CellsKept
<1>4. /\ copy[c] \in [Cells -> Values] /\ 0 \in Values
      /\ NoCopy \notin [Cells -> Values]
      /\ method \in Writers
  BY <1>1, NoEntityIsNoCopy, MethodTypes DEF TypeOK, Values
<1>5. /\ copy'[c] = StripReadOnly(copy[c], depth) /\ stripped'[c] = stripped[c] \cup {depth}
      /\ \A d \in Callers \ {c} : copy'[d] = copy[d] /\ stripped'[d] = stripped[d]
  BY <1>2 DEF TypeOK
<1>6. copy'[c] \in [Cells -> Values]
  BY <1>4, <1>5 DEF StripReadOnly
<1>7. \A cell \in Cells :
        copy'[c][cell] = IF cell[1] = depth /\ ReadOnlyCell(cell) THEN 0 ELSE copy[c][cell]
  BY <1>4, <1>5, OmittedIsReadOnly DEF StripReadOnly
<1>8. method.type.form = "xml"
  <2>1. CASE depth = "own"
    BY <1>2, <2>1
  <2>2. CASE depth = "nested"
    BY <1>2, <2>2, LookedAt, NoTypeIsEmpty DEF TypeOK
  <2> QED
    BY <2>1, <2>2
<1>9. TypeOK'
  BY <1>1, <1>2, <1>3, <1>6 DEF TypeOK, Messages
<1>10. IdsKept'
  BY <1>1, <1>3 DEF IdsKept, HasIds
<1>11. CopyKept'
  <2> SUFFICES ASSUME NEW d \in Callers PROVE Kept(d)'
    BY DEF CopyKept, Kept
  <2>1. CASE d = c
    <3>1. Kept(c) /\ taken[c] # NoCopy
      BY <1>1 DEF CopyKept, Kept
    <3>2. \A cell \in Cells : ReadOnlyCell(cell) /\ cell[1] \in stripped'[c] => copy'[c][cell] = 0
      BY <1>1, <1>5, <1>7, <3>1 DEF Kept
    <3>3. \A cell \in Cells \ {edit[c]} :
            \/ copy'[c][cell] = taken[c][cell]
            \/ Unread(cell, copy'[c][cell])
            \/ ReadOnlyCell(cell)
      BY <1>1, <1>7, <3>1 DEF Kept
    <3> QED
      BY <1>1, <1>3, <1>8, <2>1, <3>1, <3>2, <3>3
         DEF Kept, Editable, Unread, TypeAt, ReadOnlyCell
  <2>2. CASE d # c
    <3>1. copy'[d] = copy[d] /\ stripped'[d] = stripped[d]
      BY <1>5, <2>2
    <3> QED
      BY <1>1, <3>1, OthersKept
  <2> QED
    BY <2>1, <2>2
<1>12. NothingReadOnlySent'
  BY <1>1, <1>5, SentKept DEF CopyKept
<1> QED
  BY <1>4, <1>6, <1>9, <1>10, <1>11, <1>12

\* A write sends nothing that was zeroed and leaves the entity its ids.
LEMMA WriteKeeps ==
    ASSUME IInv, NEW c \in Callers, Write(c)
    PROVE  IInv'
<1> DEFINE msg == Body(c)
<1>1. /\ edit[c] # NoCopy /\ copy[c] # NoCopy
      /\ sent' = [sent EXCEPT ![c] = msg]
      /\ entity' = entity \/ entity' = [cell \in Cells |-> Accepted(msg, cell)]
      /\ copy' = [copy EXCEPT ![c] = NoCopy]
      /\ UNCHANGED <<method, nested, keeps, taken, edit, stripped>>
  BY DEF Write
<1>2. TypeOK
  BY DEF IInv
<1>3. Cells' = Cells
  BY <1>1, CellsKept
<1>4. \A cell \in Cells : Accepted(msg, cell) \in Values
  BY <1>1, BodyAccepted
<1>5. msg \in Messages
  <2>1. DOMAIN msg \in SUBSET Cells /\ msg \in [DOMAIN msg -> Values]
    BY <1>1, BodyCarries
  <2> HIDE DEF msg
  <2> QED
    BY <2>1 DEF Messages
<1>6. entity' \in [Cells -> Values]
  <2> HIDE DEF msg
  <2> QED
    BY <1>1, <1>2, <1>4 DEF TypeOK
<1>7. /\ sent' \in [Callers -> Messages \cup {NoCopy}]
      /\ sent'[c] = msg /\ \A d \in Callers \ {c} : sent'[d] = sent[d]
  <2> HIDE DEF msg
  <2> QED
    BY <1>1, <1>2, <1>5 DEF TypeOK
<1>8. TypeOK'
  BY <1>1, <1>2, <1>3, <1>6, <1>7 DEF TypeOK, Messages
<1>9. \A cell \in Cells : Id(cell) => entity'[cell] = 1
  <2> SUFFICES ASSUME NEW cell \in Cells, Id(cell)
               PROVE  entity'[cell] = 1
    OBVIOUS
  <2>1. entity'[cell] = entity[cell] \/ entity'[cell] = Accepted(msg, cell)
    BY <1>1
  <2>2. entity[cell] = 1
    BY DEF IInv, IdsKept, HasIds
  <2>3. CASE ReadOnlyCell(cell)
    BY <1>1, <2>1, <2>2, <2>3, BodyAccepted
  <2>4. CASE ~ReadOnlyCell(cell)
    <3>1. cell[2] = "key" /\ cell # Nested("day") /\ copy[c][cell] = 1
      BY <1>1, <2>4, CopyInHand DEF Id, ReadOnlyCell, Generated, Nested
    <3>2. CASE cell \in DOMAIN msg
      BY <1>1, <2>1, <2>2, <2>4, <3>1, <3>2, BodyAccepted DEF NoDay
    <3>3. CASE cell \notin DOMAIN msg
      <4>1. method.verb = "form"
        <5>1. Written(cell, copy[c][cell])
          BY <3>1 DEF Written
        <5> QED
          BY <1>1, <2>4, <3>3, <5>1, BodyCarries
      <4>2. keeps = TRUE
        BY <1>2, <4>1 DEF TypeOK, Keeping
      <4> QED
        BY <1>1, <2>1, <2>2, <2>4, <3>3, <4>2, BodyAccepted
    <3> QED
      BY <3>2, <3>3
  <2> QED
    BY <2>3, <2>4
<1>10. IdsKept'
  BY <1>1, <1>3, <1>9 DEF IInv, IdsKept, HasIds, Id
<1>11. CopyKept'
  <2> SUFFICES ASSUME NEW d \in Callers PROVE Kept(d)'
    BY DEF CopyKept, Kept
  <2>1. CASE d = c
    <3>1. copy'[c] = NoCopy /\ taken[c] # NoCopy
      BY <1>1, <1>2 DEF TypeOK, IInv, CopyKept
    <3>2. Kept(c)
      BY DEF IInv, CopyKept, Kept
    <3> QED
      BY <1>1, <2>1, <3>1, <3>2 DEF Kept, Editable
  <2>2. CASE d # c
    <3>1. copy'[d] = copy[d]
      BY <1>1, <1>2, <2>2 DEF TypeOK
    <3> QED
      BY <1>1, <1>7, <2>2, <3>1, OthersKept
  <2> QED
    BY <2>1, <2>2
<1>12. NothingReadOnlySent'
  <2> SUFFICES ASSUME NEW d \in Callers, sent'[d] # NoCopy, NEW cell \in Leaks(sent[d])'
               PROVE  method.type.form = "xml" /\ ~ZeroedAt(d, cell)
    BY <1>1 DEF NothingReadOnlySent, ZeroedAt
  <2>1. cell \in Leaks(sent'[d])
    BY <1>1 DEF Leaks, MenuId, ReadOnlyCell
  <2>2. CASE d = c
    BY <1>1, <1>7, <2>1, <2>2, BodyCarries
  <2>3. CASE d # c
    BY <1>7, <2>1, <2>3 DEF IInv, NothingReadOnlySent
  <2> QED
    BY <2>2, <2>3
<1> QED
  BY <1>8, <1>10, <1>11, <1>12 DEF IInv

\* A write of a copy of what the server still holds, or of a form, is the edit, unless the
\* server refuses it; cell for cell, but for what cannot be said, was not read or is the day
\* of a label that has none.
LEMMA WriteIsEdit ==
    ASSUME IInv, NEW c \in Callers, Write(c)
    PROVE  \/ \A cell \in Cells :
                \/ entity'[cell] = IF cell = edit[c] THEN copy[c][cell] ELSE entity[cell]
                \/ cell = edit[c] /\ Unsayable(cell, copy[c][cell])
                \/ Unread(cell, copy[c][cell])
                \/ cell = Nested("day") /\ Dayless(copy[c])
           \/ taken[c] # entity /\ method.verb # "form"
           \/ Leaks(sent'[c]) # {} /\ entity' = entity
<1> DEFINE msg == Body(c)
<1>1. /\ edit[c] # NoCopy /\ copy[c] # NoCopy
      /\ sent' = [sent EXCEPT ![c] = msg]
      /\ \/ Leaks(msg) # {} /\ entity' = entity
         \/ entity' = [cell \in Cells |-> Accepted(msg, cell)]
  BY BodyArrives DEF Write
<1>2. sent'[c] = msg
  BY <1>1 DEF IInv, TypeOK
<1>3. /\ edit[c] \in Cells /\ Editable(edit[c]) /\ ~ReadOnlyCell(edit[c])
      /\ \A cell \in Cells \ {edit[c]} :
           ReadOnlyCell(cell) \/ copy[c][cell] = taken[c][cell] \/ Unread(cell, copy[c][cell])
  BY <1>1, CopyInHand
<1> SUFFICES ASSUME entity' = [cell \in Cells |-> Accepted(msg, cell)],
                    method.verb # "form" => taken[c] = entity,
                    NEW cell \in Cells,
                    ~(cell = edit[c] /\ Unsayable(cell, copy[c][cell])),
                    ~Unread(cell, copy[c][cell]), ~NoDay(copy[c], cell)
             PROVE  Accepted(msg, cell) = IF cell = edit[c] THEN copy[c][cell] ELSE entity[cell]
  <2> HIDE DEF msg
  <2> QED
    BY <1>1, <1>2 DEF NoDay
<1>5. CASE ReadOnlyCell(cell)
  BY <1>1, <1>3, <1>5, BodyAccepted
<1>6. CASE ~ReadOnlyCell(cell) /\ method.verb = "form"
  <2>1. DOMAIN msg = {edit[c]}
    BY <1>1, <1>6, BodyCarries
  <2>2. keeps = TRUE
    BY <1>6 DEF IInv, TypeOK, Keeping
  <2> QED
    BY <1>1, <1>6, <2>1, <2>2, BodyAccepted
<1>7. CASE ~ReadOnlyCell(cell) /\ method.verb # "form" /\ cell \in DOMAIN msg
  <2>1. Accepted(msg, cell) = copy[c][cell]
    BY <1>1, <1>7, BodyAccepted
  <2> QED
    BY <1>3, <1>7, <2>1
<1>8. CASE ~ReadOnlyCell(cell) /\ method.verb # "form" /\ cell \notin DOMAIN msg
  <2>1. copy[c][cell] = 0 /\ cell[2] # "required"
    BY <1>1, <1>8, BodyCarries DEF Written
  <2>2. Accepted(msg, cell) = IF keeps THEN entity[cell] ELSE 0
    BY <1>1, <1>8, BodyAccepted
  <2>3. CASE cell # edit[c]
    <3>1. entity[cell] = 0
      BY <1>3, <1>8, <2>1, <2>3
    <3> QED
      BY <2>2, <2>3, <3>1
  <2>4. CASE cell = edit[c]
    <3>1. cell[2] = "optional"
      BY <1>1, <1>3, <1>8, <2>1, <2>4, DaysCarried DEF Editable, Days
    <3>2. ~keeps
      BY <1>8, <2>1, <2>4, <3>1 DEF Unsayable
    <3> QED
      BY <2>1, <2>2, <2>4, <3>2
  <2> QED
    BY <2>3, <2>4
<1> QED
  BY <1>5, <1>6, <1>7, <1>8

\* The invariant is inductive.
LEMMA NextIInv == IInv /\ [Next]_vars => IInv'
<1> SUFFICES ASSUME IInv, [Next]_vars PROVE IInv'
  OBVIOUS
<1>1. CASE UNCHANGED vars
  BY <1>1 DEF vars, IInv, TypeOK, Messages, IdsKept, HasIds, CopyKept, Editable, Unread, TypeAt,
              NothingReadOnlySent, Leaks, MenuId, ZeroedAt, ReadOnlyCell, Cells
<1>2. ASSUME NEW c \in Callers, Read(c) PROVE IInv'
  BY <1>2, ReadKeeps
<1>3. ASSUME NEW c \in Callers, Edit(c) PROVE IInv'
  BY <1>3, EditKeeps
<1>4. ASSUME NEW c \in Callers, Strip(c) PROVE IInv'
  BY <1>4, StripKeeps
<1>5. ASSUME NEW c \in Callers, Write(c) PROVE IInv'
  BY <1>5, WriteKeeps
<1> QED
  BY <1>1, <1>2, <1>3, <1>4, <1>5 DEF Next

\* Whatever the callers do, the server's entity keeps its ids; a caller that may write holds
\* what it read, but for the writable field it edited, what StripReadOnly zeroed and what an
\* XML type does not read; and what was zeroed has not been sent.
THEOREM Invariance == Spec => []IInv
  BY InitIInv, NextIInv, PTL DEF Spec

\* Whichever documented spelling of its fields the server uses, a caller that reads a JSON
\* type has what the server held: the generated UnmarshalJSON looks at both.
THEOREM EverySpellingIsRead == Spec => []SpellingsAgree
<1>1. IInv => SpellingsAgree
  <2> SUFFICES ASSUME IInv, method.type.form = "json",
                      NEW c \in Callers, copy[c] # NoCopy, edit[c] = NoCopy
               PROVE  copy[c] = taken[c]
    BY DEF SpellingsAgree
  <2>1. copy[c] \in [Cells -> Values] /\ taken[c] \in [Cells -> Values]
    BY DEF IInv, TypeOK, CopyKept
  <2>2. \A cell \in Cells : cell # NoCopy /\ TypeAt(cell).form = "json"
    BY CellShape DEF IInv
  <2>3. \A cell \in Cells : copy[c][cell] = taken[c][cell]
    BY <2>2 DEF IInv, CopyKept, Unread
  <2> QED
    BY <2>1, <2>3
<1> QED
  BY <1>1, Invariance, PTL

\* No message of a JSON type carries a value in a field that is marked read-only, of the
\* entity or of what it nests, but for the quick menu's id; and one of an XML type only at a
\* depth where neither UpdateOrder nor the caller called StripReadOnly.
THEOREM ReadOnlyNeverSent == Spec => []NothingReadOnlySent
<1>1. IInv => NothingReadOnlySent
  BY DEF IInv
<1> QED
  BY <1>1, Invariance, PTL

\* Between a caller's read and its write nothing else may be lost: unless the server refuses
\* the message, its entity changes in the edited field and nowhere else, for every write
\* method and every type below it.
THEOREM WritesAreEdits == Spec => WriteIsTheEdit
<1> DEFINE Edited(c) ==
      LET v == copy[c]
      IN  copy[c] # NoCopy /\ copy'[c] = NoCopy =>
            \/ \A cell \in Cells :
                 \/ entity'[cell] = IF cell = edit[c] THEN v[cell] ELSE entity[cell]
                 \/ cell = edit[c] /\ Unsayable(cell, v[cell])
                 \/ Unread(cell, v[cell])
                 \/ cell = Nested("day") /\ Dayless(v)
            \/ taken[c] # entity /\ method.verb # "form"
            \/ Leaks(sent'[c]) # {} /\ entity' = entity
<1>1. IInv /\ [Next]_vars => [\A c \in Callers : Edited(c)]_vars
  <2> SUFFICES ASSUME IInv, Next, NEW c \in Callers, copy[c] # NoCopy, copy'[c] = NoCopy
               PROVE  Edited(c)
    OBVIOUS
  <2>1. ASSUME NEW d \in Callers, Read(d) \/ Edit(d) \/ Strip(d)
        PROVE  d # c
    BY <2>1, ReadKeeps, EditKeeps, StripKeeps
  <2>2. ASSUME NEW d \in Callers, d # c, Read(d) \/ Edit(d) \/ Strip(d) \/ Write(d)
        PROVE  copy'[c] = copy[c]
    BY <2>2 DEF Read, Edit, Strip, Write, IInv, TypeOK
  <2>3. Write(c)
    BY <2>1, <2>2 DEF Next
  <2> QED
    BY <2>3, WriteIsEdit
<1> QED
  BY <1>1, Invariance, PTL DEF Spec, WriteIsTheEdit
=============================================================================
