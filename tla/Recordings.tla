----------------------------- MODULE Recordings -----------------------------
(***************************************************************************)
(* The height maps that are stored in the program (lib/utils/items), which *)
(* were recorded from real items: pairs of the milliseconds since the item *)
(* was first seen and its height.                                          *)
(*                                                                         *)
(* The data is abstracted in two ways.  A height is per mille of the full  *)
(* scale (NORMALIZE, 65535) rather than a 16 bit number, and a pair whose  *)
(* height differs by at most 10 from that of the last pair kept is left    *)
(* out, except for the last one: the analysis takes the last height before *)
(* a point in time (inter::First), so a pair that is left out moves the    *)
(* curve by one per cent at most.                                          *)
(***************************************************************************)
EXTENDS Integers

item_flat_1 ==
    <<<<0,218>>,<<1,648>>,<<3,631>>,<<10,620>>,<<267,634>>,<<271,617>>,
      <<280,631>>,<<294,617>>,<<309,628>>,<<330,617>>,<<372,629>>>>

item_hollow_1 ==
    <<<<0,555>>,<<2,814>>,<<6,796>>,<<11,784>>,<<105,800>>,<<110,788>>,
      <<113,775>>,<<116,756>>,<<120,635>>,<<123,259>>,<<125,233>>,
      <<126,212>>,<<128,197>>,<<129,182>>,<<131,170>>,<<134,156>>,
      <<141,145>>,<<161,131>>,<<167,120>>,<<180,106>>,<<186,120>>,
      <<200,109>>,<<210,121>>,<<228,138>>,<<231,149>>,<<233,160>>,
      <<240,142>>,<<242,131>>,<<251,636>>,<<252,750>>,<<254,728>>,
      <<255,744>>,<<257,769>>,<<258,780>>,<<281,795>>,<<338,782>>,
      <<348,795>>,<<368,156>>>>

item_hollow_metal_1 ==
    <<<<0,802>>,<<6,783>>,<<27,772>>,<<43,756>>,<<57,771>>,<<64,782>>,
      <<87,796>>,<<88,810>>,<<91,795>>,<<94,773>>,<<97,753>>,<<99,731>>,
      <<100,715>>,<<103,703>>,<<108,723>>,<<112,769>>,<<118,751>>,
      <<120,738>>,<<121,727>>,<<123,741>>,<<126,267>>,<<127,237>>,
      <<129,210>>,<<130,191>>,<<132,174>>,<<133,161>>,<<135,146>>,
      <<136,135>>,<<138,122>>,<<141,102>>,<<186,91>>,<<229,102>>,
      <<234,120>>,<<237,140>>,<<238,152>>,<<240,166>>,<<241,182>>,
      <<243,210>>,<<244,291>>,<<246,403>>,<<247,490>>,<<249,559>>,
      <<250,668>>,<<252,721>>,<<253,737>>,<<258,751>>,<<261,774>>,
      <<265,740>>,<<267,725>>,<<276,745>>,<<277,760>>,<<280,777>>,
      <<283,790>>,<<285,803>>,<<288,816>>,<<289,798>>,<<291,786>>,
      <<331,773>>,<<355,787>>,<<370,713>>>>

item_new_bin_010_1 ==
    <<<<0,156>>,<<1,379>>,<<4,363>>,<<7,424>>,<<9,503>>,<<10,556>>,
      <<12,652>>,<<13,782>>,<<15,799>>,<<16,813>>,<<22,824>>,<<25,835>>,
      <<33,824>>,<<43,796>>,<<45,593>>,<<46,561>>,<<66,575>>,<<67,592>>,
      <<69,620>>,<<70,652>>,<<72,698>>,<<73,744>>,<<75,771>>,<<76,790>>,
      <<78,807>>,<<81,819>>,<<100,804>>,<<102,787>>,<<103,756>>,
      <<105,700>>,<<114,687>>,<<126,707>>,<<127,725>>,<<129,748>>,
      <<130,768>>,<<132,785>>,<<133,800>>,<<136,812>>,<<144,824>>,
      <<157,840>>,<<159,691>>,<<160,539>>,<<163,551>>,<<217,563>>,
      <<238,550>>,<<244,590>>,<<246,869>>,<<249,852>>,<<252,831>>,
      <<271,817>>,<<274,799>>,<<276,782>>,<<277,757>>,<<279,724>>,
      <<280,703>>,<<295,692>>,<<301,709>>,<<303,772>>,<<304,824>>,
      <<306,837>>,<<330,823>>,<<333,801>>,<<334,718>>,<<336,587>>,
      <<337,573>>,<<358,591>>,<<360,630>>,<<361,707>>,<<363,813>>,
      <<364,840>>,<<384,828>>,<<393,371>>>>

item_new_bin_101_1 ==
    <<<<0,86>>,<<2,150>>,<<3,216>>,<<5,319>>,<<6,398>>,<<8,463>>,<<9,537>>,
      <<11,614>>,<<12,796>>,<<14,826>>,<<23,813>>,<<38,824>>,<<42,803>>,
      <<44,772>>,<<45,732>>,<<47,705>>,<<48,694>>,<<71,768>>,<<72,818>>,
      <<99,787>>,<<101,723>>,<<102,622>>,<<104,587>>,<<105,570>>,
      <<108,556>>,<<122,545>>,<<125,530>>,<<126,739>>,<<128,826>>,
      <<134,815>>,<<155,797>>,<<156,780>>,<<158,759>>,<<159,741>>,
      <<161,730>>,<<162,718>>,<<164,705>>,<<167,688>>,<<234,702>>,
      <<236,715>>,<<237,730>>,<<239,747>>,<<240,764>>,<<242,783>>,
      <<243,800>>,<<245,815>>,<<248,828>>,<<251,811>>,<<269,826>>,
      <<270,652>>,<<272,550>>,<<276,561>>,<<291,576>>,<<293,589>>,
      <<294,618>>,<<296,692>>,<<297,756>>,<<299,787>>,<<302,799>>,
      <<306,811>>,<<326,799>>,<<327,741>>,<<329,700>>,<<353,720>>,
      <<354,750>>,<<356,787>>,<<357,807>>,<<360,819>>,<<383,506>>>>

item_new_bin_110_1 ==
    <<<<0,557>>,<<2,720>>,<<3,785>>,<<5,799>>,<<27,787>>,<<32,773>>,
      <<33,745>>,<<35,717>>,<<36,689>>,<<38,671>>,<<42,660>>,<<60,705>>,
      <<62,761>>,<<63,787>>,<<89,772>>,<<90,738>>,<<92,702>>,<<93,677>>,
      <<95,666>>,<<116,680>>,<<117,740>>,<<119,785>>,<<143,771>>,
      <<144,759>>,<<146,741>>,<<147,710>>,<<149,656>>,<<150,606>>,
      <<152,572>>,<<153,550>>,<<155,535>>,<<225,557>>,<<227,576>>,
      <<228,603>>,<<230,628>>,<<231,665>>,<<233,705>>,<<234,734>>,
      <<236,754>>,<<237,771>>,<<240,783>>,<<263,736>>,<<264,684>>,
      <<266,664>>,<<287,688>>,<<288,716>>,<<290,747>>,<<291,773>>,
      <<293,785>>,<<297,797>>,<<309,785>>,<<318,753>>,<<320,712>>,
      <<321,676>>,<<323,664>>,<<327,653>>,<<336,666>>,<<342,689>>,
      <<344,717>>,<<345,752>>,<<347,784>>,<<348,800>>,<<354,780>>,
      <<359,800>>,<<368,785>>,<<371,772>>,<<375,441>>>>

item_old_bin_010_1 ==
    <<<<0,558>>,<<1,813>>,<<3,798>>,<<6,780>>,<<7,749>>,<<9,720>>,
      <<10,737>>,<<12,790>>,<<13,801>>,<<18,813>>,<<30,766>>,<<31,653>>,
      <<33,609>>,<<34,590>>,<<37,576>>,<<42,558>>,<<49,547>>,<<54,558>>,
      <<55,578>>,<<57,600>>,<<58,648>>,<<60,704>>,<<69,728>>,<<70,753>>,
      <<72,771>>,<<73,788>>,<<75,800>>,<<84,784>>,<<85,769>>,<<87,740>>,
      <<88,725>>,<<90,711>>,<<93,683>>,<<103,701>>,<<106,689>>,<<108,678>>,
      <<109,666>>,<<111,650>>,<<114,700>>,<<115,751>>,<<117,779>>,
      <<120,792>>,<<121,818>>,<<123,831>>,<<124,820>>,<<126,808>>,
      <<138,792>>,<<141,769>>,<<142,750>>,<<144,705>>,<<145,648>>,
      <<147,616>>,<<148,593>>,<<154,580>>,<<156,551>>,<<160,573>>,
      <<177,556>>,<<180,543>>,<<186,559>>,<<190,573>>,<<213,584>>,
      <<214,595>>,<<216,615>>,<<217,635>>,<<219,653>>,<<225,669>>,
      <<226,688>>,<<229,716>>,<<231,739>>,<<232,772>>,<<234,798>>,
      <<235,814>>,<<238,826>>,<<241,814>>,<<244,802>>,<<249,791>>,
      <<252,780>>,<<256,800>>,<<258,745>>,<<259,691>>,<<261,674>>,
      <<279,689>>,<<282,707>>,<<283,725>>,<<285,772>>,<<286,801>>,
      <<304,787>>,<<313,705>>,<<315,540>>,<<318,558>>,<<325,569>>,
      <<328,580>>,<<331,620>>,<<333,638>>,<<339,660>>,<<340,728>>,
      <<342,757>>,<<346,778>>,<<348,795>>,<<351,819>>,<<354,805>>,
      <<358,816>>,<<361,801>>,<<366,789>>,<<369,718>>>>

item_old_bin_101_1 ==
    <<<<0,650>>,<<2,838>>,<<3,827>>,<<11,802>>,<<14,790>>,<<27,803>>,
      <<32,774>>,<<33,736>>,<<35,692>>,<<36,666>>,<<57,678>>,<<59,704>>,
      <<60,744>>,<<62,781>>,<<66,793>>,<<87,769>>,<<89,719>>,<<90,640>>,
      <<92,602>>,<<93,574>>,<<98,550>>,<<99,525>>,<<107,537>>,<<114,573>>,
      <<116,679>>,<<117,820>>,<<120,798>>,<<125,787>>,<<134,804>>,
      <<141,788>>,<<144,774>>,<<146,761>>,<<147,746>>,<<149,721>>,
      <<150,702>>,<<152,683>>,<<153,670>>,<<174,650>>,<<177,633>>,
      <<180,803>>,<<182,849>>,<<185,836>>,<<197,854>>,<<198,651>>,
      <<200,616>>,<<201,629>>,<<203,645>>,<<206,661>>,<<225,681>>,
      <<227,696>>,<<230,712>>,<<231,723>>,<<233,737>>,<<234,757>>,
      <<236,771>>,<<245,782>>,<<252,795>>,<<261,806>>,<<263,533>>,
      <<269,546>>,<<284,565>>,<<285,582>>,<<287,604>>,<<288,667>>,
      <<290,728>>,<<291,757>>,<<293,776>>,<<296,789>>,<<317,772>>,
      <<318,740>>,<<320,707>>,<<321,677>>,<<324,664>>,<<327,652>>,
      <<332,665>>,<<341,682>>,<<344,710>>,<<345,731>>,<<347,757>>,
      <<348,782>>,<<350,795>>,<<369,780>>,<<374,594>>>>

item_old_bin_110_1 ==
    <<<<0,313>>,<<1,790>>,<<10,778>>,<<16,799>>,<<24,787>>,<<30,768>>,
      <<31,738>>,<<33,710>>,<<34,699>>,<<36,688>>,<<39,671>>,<<42,682>>,
      <<46,671>>,<<51,653>>,<<54,631>>,<<57,620>>,<<58,641>>,<<60,710>>,
      <<61,748>>,<<63,759>>,<<64,770>>,<<66,782>>,<<76,794>>,<<85,782>>,
      <<87,751>>,<<88,722>>,<<90,707>>,<<91,695>>,<<100,681>>,<<106,651>>,
      <<114,684>>,<<115,746>>,<<117,784>>,<<120,795>>,<<124,811>>,
      <<132,799>>,<<135,786>>,<<139,769>>,<<141,751>>,<<142,738>>,
      <<144,715>>,<<145,674>>,<<147,624>>,<<148,589>>,<<150,569>>,
      <<151,557>>,<<157,546>>,<<160,534>>,<<165,547>>,<<177,536>>,
      <<187,525>>,<<193,536>>,<<202,548>>,<<217,534>>,<<223,567>>,
      <<225,606>>,<<226,635>>,<<228,658>>,<<229,695>>,<<231,740>>,
      <<232,759>>,<<234,777>>,<<240,792>>,<<247,804>>,<<250,793>>,
      <<259,730>>,<<261,693>>,<<267,677>>,<<268,666>>,<<276,655>>,
      <<280,643>>,<<285,673>>,<<286,701>>,<<288,718>>,<<289,765>>,
      <<291,796>>,<<312,785>>,<<315,722>>,<<316,684>>,<<325,669>>,
      <<336,656>>,<<340,684>>,<<342,726>>,<<343,742>>,<<345,772>>,
      <<346,789>>,<<369,800>>,<<370,522>>>>

item_flat_2 ==
    <<<<0,440>>,<<2,571>>,<<3,611>>,<<8,625>>,<<12,613>>,<<36,602>>,
      <<44,615>>,<<111,626>>,<<132,610>>,<<141,622>>,<<335,607>>,
      <<344,618>>,<<357,629>>,<<368,523>>>>

item_hollow_2 ==
    <<<<0,118>>,<<2,195>>,<<3,258>>,<<5,338>>,<<6,403>>,<<8,464>>,
      <<9,547>>,<<11,718>>,<<12,788>>,<<129,777>>,<<132,751>>,<<134,735>>,
      <<135,712>>,<<137,532>>,<<138,280>>,<<140,241>>,<<141,218>>,
      <<143,200>>,<<144,183>>,<<146,169>>,<<147,157>>,<<149,146>>,
      <<150,135>>,<<153,122>>,<<194,111>>,<<242,125>>,<<245,138>>,
      <<248,156>>,<<251,167>>,<<255,186>>,<<257,213>>,<<258,272>>,
      <<260,404>>,<<261,543>>,<<263,656>>,<<264,701>>,<<266,716>>,
      <<267,734>>,<<269,745>>,<<270,762>>,<<272,775>>,<<293,786>>,
      <<384,130>>>>

item_hollow_metal_2 ==
    <<<<0,303>>,<<2,811>>,<<5,800>>,<<6,785>>,<<8,797>>,<<12,785>>,
      <<57,772>>,<<87,788>>,<<89,807>>,<<90,793>>,<<93,779>>,<<98,760>>,
      <<99,744>>,<<101,733>>,<<102,709>>,<<104,695>>,<<110,679>>,
      <<111,656>>,<<113,688>>,<<114,754>>,<<116,772>>,<<117,755>>,
      <<119,740>>,<<120,723>>,<<123,741>>,<<125,523>>,<<126,249>>,
      <<128,235>>,<<129,211>>,<<131,192>>,<<132,172>>,<<134,154>>,
      <<135,139>>,<<137,126>>,<<140,111>>,<<170,100>>,<<233,115>>,
      <<236,138>>,<<237,159>>,<<239,182>>,<<240,215>>,<<242,262>>,
      <<243,318>>,<<245,384>>,<<246,469>>,<<248,558>>,<<249,654>>,
      <<251,705>>,<<252,744>>,<<258,762>>,<<260,775>>,<<264,744>>,
      <<266,725>>,<<275,740>>,<<279,762>>,<<282,788>>,<<284,802>>,
      <<290,783>>,<<359,772>>,<<369,464>>>>

item_new_bin_010_2 ==
    <<<<0,19>>,<<1,189>>,<<7,115>>,<<9,798>>,<<12,783>>,<<15,768>>,
      <<27,779>>,<<37,766>>,<<40,729>>,<<42,584>>,<<43,532>>,<<46,521>>,
      <<66,566>>,<<67,747>>,<<69,771>>,<<94,756>>,<<96,738>>,<<97,712>>,
      <<99,689>>,<<100,664>>,<<102,652>>,<<118,640>>,<<123,665>>,
      <<124,746>>,<<126,775>>,<<138,764>>,<<150,748>>,<<153,717>>,
      <<154,695>>,<<156,655>>,<<157,608>>,<<159,574>>,<<160,550>>,
      <<162,535>>,<<166,522>>,<<223,535>>,<<229,523>>,<<235,537>>,
      <<237,561>>,<<238,612>>,<<240,663>>,<<241,702>>,<<243,731>>,
      <<244,747>>,<<246,759>>,<<271,732>>,<<273,669>>,<<274,642>>,
      <<295,653>>,<<297,670>>,<<298,697>>,<<300,719>>,<<301,738>>,
      <<303,752>>,<<306,764>>,<<328,723>>,<<330,519>>,<<351,535>>,
      <<352,572>>,<<354,640>>,<<355,705>>,<<357,737>>,<<363,748>>,
      <<367,759>>,<<384,772>>>>

item_new_bin_101_2 ==
    <<<<0,20>>,<<1,97>>,<<3,163>>,<<4,223>>,<<6,259>>,<<7,320>>,<<9,399>>,
      <<10,450>>,<<12,506>>,<<13,562>>,<<15,738>>,<<16,825>>,<<46,808>>,
      <<48,777>>,<<49,732>>,<<51,710>>,<<54,697>>,<<75,731>>,<<76,814>>,
      <<78,826>>,<<103,804>>,<<105,769>>,<<106,653>>,<<108,600>>,
      <<109,580>>,<<112,566>>,<<124,554>>,<<130,581>>,<<132,792>>,
      <<133,824>>,<<144,813>>,<<160,800>>,<<162,785>>,<<163,762>>,
      <<165,738>>,<<166,723>>,<<168,707>>,<<171,689>>,<<219,674>>,
      <<222,663>>,<<232,681>>,<<235,692>>,<<244,708>>,<<246,719>>,
      <<247,743>>,<<249,764>>,<<250,782>>,<<252,797>>,<<255,809>>,
      <<271,798>>,<<274,824>>,<<276,794>>,<<277,545>>,<<285,556>>,
      <<301,568>>,<<303,599>>,<<304,675>>,<<306,745>>,<<307,769>>,
      <<309,781>>,<<310,794>>,<<313,805>>,<<328,816>>,<<333,800>>,
      <<334,762>>,<<336,705>>,<<337,687>>,<<360,698>>,<<361,720>>,
      <<363,754>>,<<364,785>>,<<366,800>>,<<370,811>>,<<390,826>>,
      <<391,332>>>>

item_new_bin_110_2 ==
    <<<<0,179>>,<<1,231>>,<<4,250>>,<<7,279>>,<<9,314>>,<<10,366>>,
      <<12,427>>,<<13,475>>,<<15,529>>,<<16,565>>,<<18,608>>,<<19,664>>,
      <<21,741>>,<<22,807>>,<<24,822>>,<<48,804>>,<<49,782>>,<<51,746>>,
      <<52,712>>,<<54,697>>,<<66,684>>,<<75,695>>,<<76,720>>,<<78,757>>,
      <<79,799>>,<<81,811>>,<<102,799>>,<<105,785>>,<<106,760>>,
      <<108,724>>,<<109,700>>,<<111,683>>,<<115,672>>,<<133,721>>,
      <<135,774>>,<<136,798>>,<<160,782>>,<<162,767>>,<<163,742>>,
      <<165,707>>,<<166,657>>,<<168,617>>,<<169,590>>,<<171,570>>,
      <<172,554>>,<<174,543>>,<<193,531>>,<<237,543>>,<<240,564>>,
      <<241,584>>,<<243,605>>,<<244,653>>,<<246,717>>,<<247,733>>,
      <<250,753>>,<<252,765>>,<<255,778>>,<<277,756>>,<<279,708>>,
      <<280,661>>,<<285,650>>,<<300,664>>,<<303,695>>,<<304,718>>,
      <<306,736>>,<<307,755>>,<<309,768>>,<<318,780>>,<<333,762>>,
      <<334,732>>,<<336,679>>,<<337,656>>,<<358,689>>,<<360,713>>,
      <<361,737>>,<<363,758>>,<<364,769>>,<<388,586>>>>

item_old_bin_010_2 ==
    <<<<0,718>>,<<2,823>>,<<5,799>>,<<8,813>>,<<12,798>>,<<23,785>>,
      <<24,768>>,<<26,751>>,<<29,731>>,<<35,583>>,<<36,545>>,<<47,556>>,
      <<53,536>>,<<56,522>>,<<59,582>>,<<60,779>>,<<62,797>>,<<65,785>>,
      <<74,800>>,<<78,812>>,<<81,798>>,<<83,784>>,<<86,758>>,<<90,741>>,
      <<92,715>>,<<93,641>>,<<98,660>>,<<99,676>>,<<116,691>>,<<117,707>>,
      <<119,741>>,<<120,758>>,<<125,769>>,<<128,782>>,<<143,765>>,
      <<144,754>>,<<147,725>>,<<149,702>>,<<150,640>>,<<152,604>>,
      <<153,589>>,<<155,576>>,<<156,561>>,<<159,548>>,<<161,559>>,
      <<162,570>>,<<171,558>>,<<188,576>>,<<194,561>>,<<200,550>>,
      <<204,536>>,<<207,561>>,<<210,574>>,<<216,547>>,<<218,530>>,
      <<221,553>>,<<224,583>>,<<225,597>>,<<227,610>>,<<228,628>>,
      <<230,651>>,<<231,689>>,<<233,731>>,<<234,751>>,<<236,776>>,
      <<237,805>>,<<239,818>>,<<246,831>>,<<252,859>>,<<254,899>>,
      <<255,918>>,<<258,860>>,<<260,779>>,<<261,764>>,<<263,693>>,
      <<264,666>>,<<266,643>>,<<269,654>>,<<272,673>>,<<282,686>>,
      <<288,697>>,<<290,715>>,<<291,749>>,<<293,785>>,<<294,799>>,
      <<308,818>>,<<315,847>>,<<317,751>>,<<318,571>>,<<321,553>>,
      <<324,536>>,<<330,517>>,<<336,550>>,<<341,563>>,<<342,581>>,
      <<344,615>>,<<345,688>>,<<347,749>>,<<348,781>>,<<351,795>>,
      <<354,810>>,<<366,839>>,<<368,822>>,<<369,796>>,<<371,783>>,
      <<372,803>>,<<374,543>>>>

item_old_bin_101_2 ==
    <<<<0,92>>,<<1,73>>,<<9,776>>,<<10,815>>,<<15,799>>,<<18,785>>,
      <<24,798>>,<<33,786>>,<<40,765>>,<<42,725>>,<<43,693>>,<<45,676>>,
      <<49,662>>,<<67,683>>,<<69,739>>,<<70,773>>,<<73,785>>,<<82,798>>,
      <<96,782>>,<<97,744>>,<<99,690>>,<<100,622>>,<<102,564>>,<<103,539>>,
      <<106,527>>,<<123,568>>,<<124,751>>,<<126,802>>,<<130,785>>,
      <<141,796>>,<<153,776>>,<<154,759>>,<<156,743>>,<<157,724>>,
      <<159,705>>,<<160,689>>,<<163,672>>,<<174,685>>,<<178,664>>,
      <<180,653>>,<<186,641>>,<<187,697>>,<<189,852>>,<<195,836>>,
      <<205,850>>,<<208,826>>,<<210,653>>,<<214,666>>,<<220,650>>,
      <<226,665>>,<<235,684>>,<<237,695>>,<<238,720>>,<<240,741>>,
      <<241,754>>,<<243,771>>,<<244,785>>,<<249,797>>,<<271,700>>,
      <<273,529>>,<<276,540>>,<<283,554>>,<<288,532>>,<<289,519>>,
      <<294,553>>,<<295,645>>,<<297,718>>,<<298,752>>,<<300,772>>,
      <<301,783>>,<<307,794>>,<<327,775>>,<<328,725>>,<<330,682>>,
      <<331,671>>,<<349,683>>,<<351,700>>,<<352,723>>,<<354,746>>,
      <<355,764>>,<<357,781>>,<<363,792>>,<<373,803>>,<<381,358>>>>

item_old_bin_110_2 ==
    <<<<0,429>>,<<2,815>>,<<6,799>>,<<14,787>>,<<27,772>>,<<30,751>>,
      <<32,723>>,<<33,704>>,<<35,688>>,<<36,677>>,<<38,666>>,<<48,677>>,
      <<54,664>>,<<59,695>>,<<60,743>>,<<62,781>>,<<84,766>>,<<86,754>>,
      <<87,741>>,<<89,723>>,<<90,669>>,<<92,646>>,<<95,679>>,<<102,706>>,
      <<104,720>>,<<107,664>>,<<108,630>>,<<110,617>>,<<114,676>>,
      <<116,766>>,<<117,787>>,<<128,805>>,<<132,790>>,<<140,777>>,
      <<141,765>>,<<143,740>>,<<144,700>>,<<146,666>>,<<147,646>>,
      <<149,597>>,<<150,522>>,<<152,504>>,<<156,521>>,<<159,535>>,
      <<165,546>>,<<170,533>>,<<179,545>>,<<185,528>>,<<195,543>>,
      <<198,554>>,<<201,542>>,<<203,530>>,<<213,548>>,<<219,569>>,
      <<221,581>>,<<222,592>>,<<224,608>>,<<225,630>>,<<227,660>>,
      <<228,702>>,<<230,735>>,<<231,754>>,<<233,767>>,<<234,781>>,
      <<236,800>>,<<237,815>>,<<242,801>>,<<257,774>>,<<258,734>>,
      <<260,646>>,<<267,662>>,<<270,674>>,<<275,662>>,<<278,648>>,
      <<284,695>>,<<285,728>>,<<288,764>>,<<290,796>>,<<291,813>>,
      <<294,785>>,<<302,802>>,<<311,787>>,<<314,754>>,<<315,721>>,
      <<317,693>>,<<321,682>>,<<323,670>>,<<330,658>>,<<335,688>>,
      <<339,675>>,<<342,697>>,<<344,731>>,<<345,765>>,<<354,785>>,
      <<359,774>>,<<363,787>>,<<371,138>>>>

-----------------------------------------------------------------------------
(***************************************************************************)
(* What Storage holds (lib/utils/storage.cpp, CREATE): the plugin type an  *)
(* item is expected to be identified as, and its recording.  The keys of   *)
(* the map are replaced by positions.                                      *)
(***************************************************************************)
Storage == <<
    [type |-> "FLAT", data |-> item_flat_1],
    [type |-> "HOLLOW", data |-> item_hollow_1],
    [type |-> "HOLLOW", data |-> item_hollow_metal_1],
    [type |-> "CODED_101", data |-> item_new_bin_010_1],
    [type |-> "CODED_010", data |-> item_new_bin_101_1],
    [type |-> "CODED_001", data |-> item_new_bin_110_1],
    [type |-> "CODED_101", data |-> item_old_bin_010_1],
    [type |-> "CODED_010", data |-> item_old_bin_101_1],
    [type |-> "CODED_001", data |-> item_old_bin_110_1],
    [type |-> "FLAT", data |-> item_flat_2],
    [type |-> "HOLLOW", data |-> item_hollow_2],
    [type |-> "HOLLOW", data |-> item_hollow_metal_2],
    [type |-> "CODED_101", data |-> item_new_bin_010_2],
    [type |-> "CODED_010", data |-> item_new_bin_101_2],
    [type |-> "CODED_001", data |-> item_new_bin_110_2],
    [type |-> "CODED_101", data |-> item_old_bin_010_2],
    [type |-> "CODED_010", data |-> item_old_bin_101_2],
    [type |-> "CODED_001", data |-> item_old_bin_110_2] >>
=============================================================================
