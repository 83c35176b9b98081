----------------------------- MODULE WireTypes -----------------------------
(***************************************************************************)
(* The types of iikoserver/<domain>/types.go, which tools/gen/server makes *)
(* from the catalog, and the hand-written ones that replace some of them:  *)
(* what each says about the kinds of fields it has.  One field stands for  *)
(* all the fields of a type that carry the same marks, because the codec   *)
(* (RoundTrips) treats them alike:                                         *)
(*   key        the id, when the caller may send it                        *)
(*   serverKey  the id, when it is marked read-only                        *)
(*   required   written whatever its value is                              *)
(*   optional   tagged omitempty                                           *)
(*   readOnly   marked read-only                                           *)
(*   byDay      whether a quick menu depends on the day of the week        *)
(*   day        the day of a quick menu's label                            *)
(* A type also says which of these have a second spelling, and which types *)
(* the fields nest that are not themselves read-only.  Two types that say  *)
(* the same are one value.                                                 *)
(***************************************************************************)

Aliased(form, marks, aliased, of) == [form |-> form, marks |-> marks, aliased |-> aliased, of |-> of]
Nests(form, marks, of) == Aliased(form, marks, {}, of)
Dto(form, marks) == Nests(form, marks, {})

(* iikoserver/cashshifts/types.go *)
AddPayOutResultDto == Aliased("json", {"readOnly"}, {"readOnly"}, {})
AuthInfoDto == Dto("json", {"readOnly"})
CashFlowCategoryDto == Aliased("json", {"readOnly", "serverKey"}, {"readOnly"}, {})
CashShiftPaymentsDto == Aliased("json", {"readOnly"}, {"readOnly"}, {})
CashShiftSessionDto == Aliased("json", {"readOnly", "serverKey"}, {"readOnly"}, {})
ClosedSessionItemDto == Dto("json", {"optional"})
SessionRefDto == Aliased("json", {"optional"}, {"optional"}, {})
ClosedSessionDocumentDto == Nests("json", {"key", "optional"}, {ClosedSessionItemDto, SessionRefDto})
ConceptionRefDto == Dto("json", {"readOnly", "serverKey"})
ErrorDto == Dto("json", {"readOnly"})
ItemErrorDto == Dto("json", {"readOnly"})
PayInOutTypeDto == Dto("json", {"readOnly", "serverKey"})
PayOutRequestDto == Dto("json", {"optional", "required"})
PaymentRecordDto == Dto("json", {"optional", "readOnly"})
PayrollDto == Aliased("json", {"readOnly", "serverKey"}, {"serverKey"}, {})
SaveErrorsDto == Dto("json", {"readOnly"})
SaveResultDto == Dto("json", {"readOnly"})
TransactionInfoDto == Aliased("json", {"readOnly", "serverKey"}, {"readOnly"}, {})

(* iikoserver/corporation/types.go *)
AccountDto == Dto("json", {"readOnly", "serverKey"})
CorporateItemDto == Dto("xml", {"optional", "readOnly", "serverKey"})
CorporationSettingsDto == Dto("json", {"optional"})
EntityListItemDto == Dto("json", {"readOnly", "serverKey"})
GroupDto == Dto("xml", {"readOnly", "required", "serverKey"})
IdNameDto == Dto("xml", {"readOnly", "serverKey"})
LegalAddressDto == Dto("xml", {"optional"})
OfficialEmployeeDto == Dto("xml", {"optional"})
JurPersonAdditionalPropertiesDto == Nests("xml", {"optional"}, {LegalAddressDto, OfficialEmployeeDto})
PointOfSaleDto == Dto("xml", {"readOnly", "required", "serverKey"})
TerminalDto == Dto("xml", {"readOnly", "required", "serverKey"})

(* iikoserver/documents/types.go *)
DocumentValidationResultDto == Dto("xml", {"readOnly"})
IdCodeNameDto == Dto("xml", {"readOnly", "serverKey"})
IncomingInventoryItemDto == Dto("xml", {"optional", "readOnly"})
IncomingInventoryDto == Nests("xml", {"optional", "required"}, {IncomingInventoryItemDto})
IncomingInventoryValidationResultDto == Dto("xml", {"readOnly"})
IncomingInventoryValidationResultItemDto == Dto("xml", {"readOnly"})
IncomingInvoiceItemDto == Aliased("xml", {"optional", "readOnly", "required"}, {"optional"}, {})
IncomingInvoiceDto == Nests("xml", {"optional", "readOnly", "serverKey"}, {IncomingInvoiceItemDto})
InternalTransferItemDto == Dto("json", {"optional", "readOnly", "required"})
InternalTransferDto == Nests("json", {"key", "optional", "required"}, {InternalTransferItemDto})
OutgoingInvoiceItemDto == Dto("xml", {"optional", "readOnly", "required"})
OutgoingInvoiceDto ==
  Nests("xml", {"optional", "readOnly", "required", "serverKey"}, {OutgoingInvoiceItemDto})
ProductionDocumentItemDto == Dto("xml", {"optional"})
ProductionDocumentDto == Nests("xml", {"optional"}, {ProductionDocumentItemDto})
ReturnedInvoiceItemDto == Dto("xml", {"optional", "required"})
ReturnedInvoiceDto == Nests("xml", {"optional", "required"}, {ReturnedInvoiceItemDto})
SalesDocumentItemDto == Dto("xml", {"optional", "required"})
SalesDocumentDto == Nests("xml", {"optional"}, {SalesDocumentItemDto})
WriteoffDocumentItemDto == Dto("json", {"optional", "readOnly", "required"})
WriteoffDocumentDto == Nests("json", {"key", "optional", "readOnly", "required"}, {WriteoffDocumentItemDto})

(* iikoserver/edi/types.go *)
ContainerDto__edi == Dto("xml", {"optional", "required"})
ContractorDto == Dto("xml", {"optional"})
DeliveryInfoDto == Dto("xml", {"optional"})
DocumentIdentifierDto == Dto("xml", {"optional", "required"})
EdiMessageHeaderDto == Nests("xml", {"required"}, {ContractorDto})
QuantityDto == Nests("xml", {"optional", "required"}, {ContainerDto__edi})
InvoiceItemDto == Nests("xml", {"optional", "required"}, {QuantityDto})
InvoiceDto ==
  Nests("xml", {"optional", "required"},
    {ContractorDto, DeliveryInfoDto, DocumentIdentifierDto, InvoiceItemDto})
OrderItemDto == Nests("xml", {"optional", "required"}, {QuantityDto})
OrderDto == Nests("xml", {"optional", "readOnly", "required"}, {ContractorDto, DeliveryInfoDto, OrderItemDto})
OrderResponseItemDto == Nests("xml", {"optional", "required"}, {QuantityDto})
OrderResponseDto ==
  Nests("xml", {"optional", "required"},
    {ContractorDto, DeliveryInfoDto, DocumentIdentifierDto, OrderResponseItemDto})
EdiMessageDto ==
  Nests("xml", {"key", "optional", "required"}, {EdiMessageHeaderDto, InvoiceDto, OrderDto, OrderResponseDto})
EdiOrderWarningDto == Dto("xml", {"readOnly"})
OrderCreationOrUpdateResultDto == Dto("xml", {"readOnly"})

(* iikoserver/events/types.go *)
EventAttributeDto == Dto("xml", {"optional"})
EventAttributeMetadataDto == Dto("xml", {"readOnly", "serverKey"})
EventDto == Nests("xml", {"optional", "serverKey"}, {EventAttributeDto})
EventGroupDto == Dto("xml", {"readOnly", "serverKey"})
EventTypeMetadataDto == Dto("xml", {"readOnly", "serverKey"})
EventsListDto == Nests("xml", {"optional", "readOnly"}, {EventDto})
EventsRequestDataDto == Dto("xml", {"required"})
GroupsListDto == Dto("xml", {"readOnly"})

(* iikoserver/nomenclature/types.go *)
BarcodeContainerDto == Dto("json", {"optional"})
BarcodeContainerDtoXML == Dto("xml", {"optional", "required"})
ChoiceBindingDto == Dto("json", {"optional"})
ContainerDtoXML == Dto("xml", {"key", "optional", "required"})
ContainerDto__nomenclature == Dto("json", {"optional", "readOnly", "required", "serverKey"})
DepartmentFilterDto == Dto("json", {"optional"})
EntityDto == Dto("json", {"key", "readOnly", "required"})
IdListItemDto == Dto("json", {"key"})
IdListDto == Nests("json", {"required"}, {IdListItemDto})
ImageDto == Dto("json", {"optional", "serverKey"})
RGBColorDto == Dto("json", {"optional"})
ProductDto ==
  Aliased("json", {"key", "optional", "readOnly", "required"}, {"optional"},
    {BarcodeContainerDto, ChoiceBindingDto, ContainerDto__nomenclature, RGBColorDto})
ProductDtoXML == Nests("xml", {"key", "optional", "required"}, {BarcodeContainerDtoXML, ContainerDtoXML})
ProductGroupDto == Nests("json", {"key", "optional", "readOnly", "required"}, {RGBColorDto})
ProductSizeFactorDto == Dto("json", {"optional"})
ProductSizeDto == Nests("json", {"key", "optional", "readOnly"}, {ProductSizeFactorDto})
ProductScaleBindingDto == Nests("json", {"key", "optional"}, {ProductSizeDto})
ProductScaleDto == Nests("json", {"key", "optional", "readOnly", "required"}, {ProductSizeDto})
ProductsAndGroupsDto == Dto("json", {"optional"})
QuickLabelDto == Dto("json", {"day", "optional", "readOnly", "required"})
QuickMenuDto == Nests("json", {"byDay", "optional", "readOnly", "serverKey"}, {QuickLabelDto})

(* iikoserver/pricing/types.go *)
PricingStrategyDto == Dto("json", {"optional"})
ClientPriceCategoryDto == Nests("json", {"optional", "readOnly", "serverKey"}, {PricingStrategyDto})
IncludeForCategoryDto == Dto("json", {"optional"})
PriceForCategoryDto == Dto("json", {"optional"})
MenuChangeDocumentItemDto ==
  Nests("json", {"optional", "readOnly"}, {IncludeForCategoryDto, PriceForCategoryDto})
MenuChangeDocumentDto == Nests("json", {"key", "optional", "readOnly"}, {MenuChangeDocumentItemDto})
PeriodDto == Dto("json", {"readOnly"})
PeriodScheduleItemDto == Dto("json", {"optional"})
PeriodScheduleDto == Nests("json", {"optional", "readOnly", "serverKey"}, {PeriodScheduleItemDto})
ProductPriceDto == Dto("json", {"readOnly"})
ProductPriceItemDto == Dto("json", {"readOnly"})

(* iikoserver/recipes/types.go *)
AssemblyChartItemDto == Dto("json", {"optional", "serverKey"})
PreparedChartItemDto == Dto("json", {"optional", "serverKey"})

(* iikoserver/reports/types.go *)
BalanceCounteragentEntry == Dto("json", {"optional"})
BalanceStoreEntry == Dto("json", {"optional"})
BudgetPlanItemDto == Dto("xml", {"optional"})
DayDishValueDto == Dto("xml", {"optional"})
DeliveryConsolidatedRow == Dto("xml", {"optional"})
DeliveryCourierMetric == Dto("xml", {"optional"})
DeliveryCourierRow == Nests("xml", {"optional"}, {DeliveryCourierMetric})
DeliveryHalfHourMetric == Dto("xml", {"optional"})
DeliveryHalfHourRow == Nests("xml", {"optional"}, {DeliveryHalfHourMetric})
DeliveryLoyaltyRegion == Dto("xml", {"optional"})
DeliveryLoyaltyRow == Nests("xml", {"optional"}, {DeliveryLoyaltyRegion})
DeliveryOrderCycleRow == Dto("xml", {"optional"})
DeliveryRegionRow == Dto("xml", {"optional"})
EgaisMarkStateDto == Dto("json", {"optional"})
EgaisBRegDto == Nests("json", {"optional"}, {EgaisMarkStateDto})
EgaisMarksListResponse == Nests("json", {"optional", "required"}, {EgaisBRegDto})
IngredientEntryDto == Dto("xml", {"optional", "required"})
KeyValue == Dto("xml", {"optional"})
OlapColumnDescriptor == Dto("json", {"optional", "required"})
OlapFieldsDeliveries == Aliased("json", {"optional"}, {"optional"}, {})
OlapFieldsSales == Aliased("json", {"optional"}, {"optional"}, {})
OlapFieldsStock == Dto("json", {"optional"})
OlapFieldsTransactions == Aliased("json", {"optional"}, {"optional"}, {})
OlapFilter == Dto("json", {"required"})
OlapFilterDateRange == Dto("json", {"optional", "required"})
OlapFilterIncludeExcludeValues == Dto("json", {"required"})
OlapFilterRange == Dto("json", {"optional", "required"})
OlapPreset == Nests("json", {"key", "optional", "required"}, {OlapFilter})
OlapV2RequestBody == Nests("json", {"optional", "required"}, {OlapFilter})
OlapV2Response == Dto("json", {"required"})
StoreOperationsReportGrouping == Dto("xml", {"optional"})
StoreReportItemDto == Dto("xml", {"optional", "required"})
StoreReportPresetFilter == Dto("xml", {"optional", "required"})
StoreReportPreset ==
  Nests("xml", {"key", "optional", "required"},
    {KeyValue, StoreOperationsReportGrouping, StoreReportPresetFilter})

(* iikoserver/staff/types.go *)
AssignmentEntryDto == Dto("xml", {"optional", "required"})
AttendanceDto == Dto("xml", {"key", "optional", "readOnly", "required"})
AttendanceTypeDto == Dto("xml", {"key", "optional", "required"})
AvailabilityDto == Dto("xml", {"readOnly"})
PublicExternalDataEntryDto == Dto("xml", {"optional", "required"})
EmployeeDto == Nests("xml", {"optional", "required", "serverKey"}, {PublicExternalDataEntryDto})
EmployeeRoleDto == Dto("xml", {"key", "optional", "readOnly", "required"})
PaymentDetailsDto == Aliased("xml", {"readOnly"}, {"readOnly"}, {})
SalaryDto == Dto("xml", {"optional"})
ScheduleDto == Dto("xml", {"key", "optional", "readOnly", "required"})
ScheduleTypeDto == Dto("xml", {"key", "optional", "required"})
WaiterTeamAssignmentsDto == Nests("xml", {"optional", "serverKey"}, {AssignmentEntryDto})
WaiterTeamDto == Dto("xml", {"key", "optional", "required"})

(* iikoserver/suppliers/types.go *)
SupplierPriceListItemDto == Dto("xml", {"readOnly"})

(* Written by hand: the shift, its payments and what a payment is about    *)
(* (cashshifts), the chart that a save sends and a read returns (recipes). *)
TransactionInfo == Aliased("json", {"key", "required"}, {"required"}, {})
PaymentRecord == Nests("json", {"required"}, {TransactionInfo})
CashShiftPayments == Aliased("json", {"required"}, {"required"}, {PaymentRecord})
CashShiftSession == Aliased("json", {"key", "required"}, {"required"}, {})
AssemblyChartItem == Dto("json", {"key", "required"})
AssemblyChartDto == Nests("json", {"key", "required"}, {AssemblyChartItem})

Types ==
  {AddPayOutResultDto, AuthInfoDto, CashFlowCategoryDto, CashShiftPaymentsDto, CashShiftSessionDto,
   ClosedSessionItemDto, SessionRefDto, ClosedSessionDocumentDto, ConceptionRefDto, ErrorDto, ItemErrorDto,
   PayInOutTypeDto, PayOutRequestDto, PaymentRecordDto, PayrollDto, SaveErrorsDto, SaveResultDto,
   TransactionInfoDto, AccountDto, CorporateItemDto, CorporationSettingsDto, EntityListItemDto, GroupDto,
   IdNameDto, LegalAddressDto, OfficialEmployeeDto, JurPersonAdditionalPropertiesDto, PointOfSaleDto,
   TerminalDto, DocumentValidationResultDto, IdCodeNameDto, IncomingInventoryItemDto, IncomingInventoryDto,
   IncomingInventoryValidationResultDto, IncomingInventoryValidationResultItemDto, IncomingInvoiceItemDto,
   IncomingInvoiceDto, InternalTransferItemDto, InternalTransferDto, OutgoingInvoiceItemDto,
   OutgoingInvoiceDto, ProductionDocumentItemDto, ProductionDocumentDto, ReturnedInvoiceItemDto,
   ReturnedInvoiceDto, SalesDocumentItemDto, SalesDocumentDto, WriteoffDocumentItemDto, WriteoffDocumentDto,
   ContainerDto__edi, ContractorDto, DeliveryInfoDto, DocumentIdentifierDto, EdiMessageHeaderDto,
   QuantityDto, InvoiceItemDto, InvoiceDto, OrderItemDto, OrderDto, OrderResponseItemDto, OrderResponseDto,
   EdiMessageDto, EdiOrderWarningDto, OrderCreationOrUpdateResultDto, EventAttributeDto,
   EventAttributeMetadataDto, EventDto, EventGroupDto, EventTypeMetadataDto, EventsListDto,
   EventsRequestDataDto, GroupsListDto, BarcodeContainerDto, BarcodeContainerDtoXML, ChoiceBindingDto,
   ContainerDtoXML, ContainerDto__nomenclature, DepartmentFilterDto, EntityDto, IdListItemDto, IdListDto,
   ImageDto, RGBColorDto, ProductDto, ProductDtoXML, ProductGroupDto, ProductSizeFactorDto, ProductSizeDto,
   ProductScaleBindingDto, ProductScaleDto, ProductsAndGroupsDto, QuickLabelDto, QuickMenuDto,
   PricingStrategyDto, ClientPriceCategoryDto, IncludeForCategoryDto, PriceForCategoryDto,
   MenuChangeDocumentItemDto, MenuChangeDocumentDto, PeriodDto, PeriodScheduleItemDto, PeriodScheduleDto,
   ProductPriceDto, ProductPriceItemDto, AssemblyChartItemDto, PreparedChartItemDto,
   BalanceCounteragentEntry, BalanceStoreEntry, BudgetPlanItemDto, DayDishValueDto, DeliveryConsolidatedRow,
   DeliveryCourierMetric, DeliveryCourierRow, DeliveryHalfHourMetric, DeliveryHalfHourRow,
   DeliveryLoyaltyRegion, DeliveryLoyaltyRow, DeliveryOrderCycleRow, DeliveryRegionRow, EgaisMarkStateDto,
   EgaisBRegDto, EgaisMarksListResponse, IngredientEntryDto, KeyValue, OlapColumnDescriptor,
   OlapFieldsDeliveries, OlapFieldsSales, OlapFieldsStock, OlapFieldsTransactions, OlapFilter,
   OlapFilterDateRange, OlapFilterIncludeExcludeValues, OlapFilterRange, OlapPreset, OlapV2RequestBody,
   OlapV2Response, StoreOperationsReportGrouping, StoreReportItemDto, StoreReportPresetFilter,
   StoreReportPreset, AssignmentEntryDto, AttendanceDto, AttendanceTypeDto, AvailabilityDto,
   PublicExternalDataEntryDto, EmployeeDto, EmployeeRoleDto, PaymentDetailsDto, SalaryDto, ScheduleDto,
   ScheduleTypeDto, WaiterTeamAssignmentsDto, WaiterTeamDto, SupplierPriceListItemDto, TransactionInfo,
   PaymentRecord, CashShiftPayments, CashShiftSession, AssemblyChartItem, AssemblyChartDto}
=============================================================================
